---- MODULE Spec2Model ----
(***************************************************************************)
(* Verification model of the Illustrator structure parser: the integrity   *)
(* checker, the variable detector and namer, the composite pattern matcher *)
(* and the batch replacer.  Every component is a state machine over its    *)
(* own variables; a component that is not running keeps its variables at   *)
(* their idle values.                                                      *)
(***************************************************************************)
EXTENDS Integers, Sequences, FiniteSets, TLC

VARIABLES
    icElements,   \* IntegrityChecker: the flattened element list under check
    icPc,         \* IntegrityChecker: "start" | "done", "hierarchy" | "hierarchyDone"
    idCheck,      \* IntegrityChecker: result of checkIdUniqueness
    hierarchyCheck, \* IntegrityChecker: result of checkHierarchy
    boundsCheck,  \* IntegrityChecker: result of checkBounds ("bounds" | "boundsDone")
    gItems,       \* IdGenerator: the items of the tree, each with its context
    gCounter,     \* IdGenerator.counters: type -> count (0: no entry)
    gSeq,         \* IdGenerator: the generateSequentialId calls and resets so far
    gIds,         \* IdGenerator: the ids each traversal so far gave the items
    dElements,    \* processElements: the element list (elem.variable is written)
    dPc,          \* processElements: "loop" | "done"
    di,           \* processElements: loop index i (0-based)
    counters,     \* VariableNamer.counters
    variables,    \* processElements: the variables list being built
    variableMap,  \* processElements: variableKey -> elementId
    debugCount,   \* processElements: debugCount
    pmElements,   \* PatternMatcher: the element list given to matchAll
    pmPc,         \* PatternMatcher: "traverse" | "done", "repeat" | "numbered"
    pmPatterns,   \* PatternMatcher: results.patterns
    pmVariables,  \* structure.patternVariables (generatePatternVariableIds)
    rSource,      \* runFromConfig: the document as the source file holds it
    rDoc,         \* runFromConfig: the open document
    rReps,        \* runFromConfig: config.replacements
    ri,           \* runFromConfig: loop index i (0-based)
    rItems,       \* runFromConfig: the item each iteration resolved (location)
    rLog,         \* BatchReplacer.log
    rPc,          \* runFromConfig: "loop" | "done", "path" | "resolved"
    bData,        \* runBatchReplace: the data rows
    bi,           \* runBatchReplace: loop index i (0-based)
    bSuccess,     \* runBatchReplace: success
    bFailed,      \* runBatchReplace: failed
    bFiles,       \* runBatchReplace: files
    bRuns,        \* runBatchReplace: the Illustrator runs made, with their outcome
    bPc,          \* runBatchReplace: "loop" | "done"
    csIn,         \* CoordinateSystem: the initialised settings and the native box
    csOut,        \* CoordinateSystem: what transformBounds returned
    csPc,         \* CoordinateSystem: "start" / "done"
    ehErrors,     \* ErrorHandler.errors (the codes recorded)
    ehWarnings,   \* ErrorHandler.warnings (the codes recorded)
    ehOut,        \* ErrorHandler: how each safeExecute call so far ended
    mLayers,      \* main: doc.layers, each as its number of page items
    mL,           \* main: layer loop index l
    mItem,        \* traverseItems: loop index i in the layer under traversal
    mProcessed,   \* STATE.totalProcessed
    mCancelled,   \* ProgressDialog.cancelled
    mPc,          \* main: "layer" / "traverse" / "phases" / "saved" / "cancelled"
    tElements,    \* the element lists of two detection passes
    tPc,          \* where each of the two passes is: "start", "loop" or "done"
    ti,           \* the loop index of each of the two passes
    tVariables,   \* the variables list of each of the two passes
    tCounters,    \* VariableNamer.counters, the one object both passes use
    tLog,         \* the pass of every step taken so far, in order
    lItems,       \* LOOAnalyzer: the hidden flag of every page item of the document
    lTargets,     \* the page item each target of the analysis locates (0: none)
    lResults      \* LOOAnalyzer.results: the status of each analysed target

\* Everything the components hold.
vars == <<icElements, icPc, idCheck, hierarchyCheck, boundsCheck, gItems,
          gCounter, gIds, gSeq, dElements, dPc, di, counters, variables,
          variableMap, debugCount, pmElements, pmPc, pmPatterns, pmVariables,
          rSource, rDoc, rReps, ri, rItems, rLog, rPc, bData, bi, bSuccess,
          bFailed, bFiles, bRuns, bPc, csIn, csOut, csPc, ehErrors,
          ehWarnings, ehOut, mLayers, mL, mItem, mProcessed, mCancelled, mPc,
          tElements, tPc, ti, tVariables, tCounters, tLog, lItems, lTargets,
          lResults>>

\* What a step of the running component leaves alone: the state of every
\* other component.
Others(running) ==
    /\ IF running = "IntegrityChecker" THEN TRUE
       ELSE UNCHANGED <<icElements, icPc, idCheck, hierarchyCheck,
                         boundsCheck>>
    /\ IF running = "IdGenerator" THEN TRUE
       ELSE UNCHANGED <<gItems, gCounter, gIds, gSeq>>
    /\ IF running = "VariableDetectorV2" THEN TRUE
       ELSE UNCHANGED <<dElements, dPc, di, counters, variables, variableMap,
                         debugCount>>
    /\ IF running = "PatternMatcher" THEN TRUE
       ELSE UNCHANGED <<pmElements, pmPc, pmPatterns, pmVariables>>
    /\ IF running = "BatchReplacer" THEN TRUE
       ELSE UNCHANGED <<rSource, rDoc, rReps, ri, rItems, rLog, rPc>>
    /\ IF running = "runBatchReplace" THEN TRUE
       ELSE UNCHANGED <<bData, bi, bSuccess, bFailed, bFiles, bRuns, bPc>>
    /\ IF running = "CoordinateSystem" THEN TRUE
       ELSE UNCHANGED <<csIn, csOut, csPc>>
    /\ IF running = "ErrorHandler" THEN TRUE
       ELSE UNCHANGED <<ehErrors, ehWarnings, ehOut>>
    /\ IF running = "main" THEN TRUE
       ELSE UNCHANGED <<mLayers, mL, mItem, mProcessed, mCancelled, mPc>>
    /\ IF running = "two passes" THEN TRUE
       ELSE UNCHANGED <<tElements, tPc, ti, tVariables, tCounters, tLog>>
    /\ IF running = "LOOAnalyzer" THEN TRUE
       ELSE UNCHANGED <<lItems, lTargets, lResults>>

\* ------------------------------------------------------------------------
\* Shared helpers
\* ------------------------------------------------------------------------

\* Value of a missing property / an unset variable (JavaScript undefined).
Undefined == "undefined"

\* All sequences over S of length 0..n.
SeqsUpTo(S, n) == UNION { [1..k -> S] : k \in 0..n }

\* The components that are not running stay at their idle values.
Idle(running) ==
    /\ running # "IntegrityChecker" =>
          /\ icElements = <<>> /\ icPc = "idle" /\ idCheck = Undefined
          /\ hierarchyCheck = Undefined /\ boundsCheck = Undefined
    /\ running # "IdGenerator" =>
          gItems = <<>> /\ gCounter = <<>> /\ gIds = <<>> /\ gSeq = <<>>
    /\ running # "VariableDetectorV2" =>
          /\ dElements = <<>> /\ dPc = "idle" /\ di = 0 /\ counters = <<>>
          /\ variables = <<>> /\ variableMap = {} /\ debugCount = <<>>
    /\ running # "PatternMatcher" =>
          /\ pmElements = <<>> /\ pmPc = "idle" /\ pmPatterns = <<>>
          /\ pmVariables = <<>>
    /\ running # "BatchReplacer" =>
          /\ rSource = <<>> /\ rDoc = <<>> /\ rReps = <<>> /\ ri = 0
          /\ rItems = <<>> /\ rLog = <<>> /\ rPc = "idle"
    /\ running # "runBatchReplace" =>
          /\ bData = <<>> /\ bi = 0 /\ bSuccess = 0 /\ bFailed = 0
          /\ bFiles = <<>> /\ bRuns = <<>> /\ bPc = "idle"
    /\ running # "CoordinateSystem" =>
          csIn = <<>> /\ csOut = <<>> /\ csPc = "idle"
    /\ running # "ErrorHandler" =>
          ehErrors = <<>> /\ ehWarnings = <<>> /\ ehOut = <<>>
    /\ running # "main" =>
          mLayers = <<>> /\ mL = 0 /\ mItem = 0 /\ mProcessed = 0 /\ mCancelled = FALSE /\ mPc = "idle"
    /\ running # "two passes" =>
          tElements = <<>> /\ tPc = <<>> /\ ti = <<>> /\ tVariables = <<>> /\ tCounters = <<>> /\ tLog = <<>>
    /\ running # "LOOAnalyzer" =>
          lItems = <<>> /\ lTargets = <<>> /\ lResults = <<>>

\* ------------------------------------------------------------------------
\* IntegrityChecker (data validation module)
\* ------------------------------------------------------------------------

\* Longest element list handed to the integrity checker.
MaxIcElems == 4

\* Element ids that can occur in a flattened list.
IcIds == {"text_a", "text_b", "group_c"}

\* Stands for "no index stored" (the property is absent) in an index map.
NoIndex == -1

\* JavaScript truthiness of a stored array index: undefined and 0 are falsy.
TruthyIndex(v) == v # NoIndex /\ v # 0

\* The loop of checkIdUniqueness from 0-based index i on; `ids` maps an id to
\* the index stored for it (NoIndex when the property is absent).
RECURSIVE CheckIdLoop(_, _, _, _)
CheckIdLoop(elems, i, ids, dups) ==
    IF i >= Len(elems)
    THEN [ids |-> ids, duplicates |-> dups]
    ELSE LET id == elems[i + 1].id IN
         IF TruthyIndex(ids[id])
         THEN CheckIdLoop(elems, i + 1, ids,
                          Append(dups, [id |-> id, indices |-> <<ids[id], i>>]))
         ELSE CheckIdLoop(elems, i + 1, [ids EXCEPT ![id] = i], dups)

\* IntegrityChecker.checkIdUniqueness(elements)
checkIdUniqueness(elems) ==
    LET r == CheckIdLoop(elems, 0, [x \in IcIds |-> NoIndex], <<>>) IN
    [ unique     |-> Len(r.duplicates) = 0,
      duplicates |-> r.duplicates,
      totalIds   |-> Cardinality({x \in IcIds : r.ids[x] # NoIndex}) ]

IcInit ==
    /\ icElements \in SeqsUpTo([id : IcIds], MaxIcElems)
    /\ icPc = "start"
    /\ idCheck = Undefined
    /\ hierarchyCheck = Undefined
    /\ boundsCheck = Undefined
    /\ Idle("IntegrityChecker")

\* One run of the id-uniqueness check over the element list.
CheckIdUniqueness ==
    /\ icPc = "start"
    /\ idCheck' = checkIdUniqueness(icElements)
    /\ icPc' = "done"
    /\ UNCHANGED <<icElements, hierarchyCheck, boundsCheck>> /\ Others("IntegrityChecker")

\* ids that occur at more than one index of the element list
RepeatedIds(elems) ==
    { elems[i].id : i \in { k \in 1..Len(elems) :
                              \E j \in 1..Len(elems) : j # k /\ elems[j].id = elems[k].id } }

\* ids named by some entry of a duplicates list
FlaggedIds(dups) == { dups[k].id : k \in 1..Len(dups) }

\* C1: after checkIdUniqueness every id that occurs at more than one index
\* of the list is recorded in idCheck.duplicates, wherever the occurrences
\* are, and idCheck.unique is true only when all ids are pairwise distinct.
C1_DuplicatesFlagged ==
    icPc = "done" =>
        /\ RepeatedIds(icElements) \subseteq FlaggedIds(idCheck.duplicates)
        /\ (idCheck.unique => RepeatedIds(icElements) = {})

\* Longest element list handed to checkHierarchy.
MaxHierElems == 3

\* JavaScript null.
Null == "null"

\* IntegrityChecker.checkHierarchy(elements), reporting every element with a
\* parentId whether or not an element has that id
checkHierarchyAnyParent(elems) ==
    LET RECURSIVE Issues(_)
        Issues(j) ==
            IF j > Len(elems) THEN <<>>
            ELSE LET elem == elems[j] IN
                 (IF elem.parentId # Null /\ elem.parentId # ""
                  THEN << [elementId |-> elem.id, issue |-> elem.parentId] >>
                  ELSE <<>>) \o Issues(j + 1)
    IN [ valid |-> Len(Issues(1)) = 0, issues |-> Issues(1) ]

\* IntegrityChecker.checkHierarchy(elements); an issue carries the parentId
\* its message names
checkHierarchy(elems) ==
    LET idSet == { elems[i].id : i \in 1..Len(elems) }
        RECURSIVE Issues(_)
        Issues(j) ==
            IF j > Len(elems) THEN <<>>
            ELSE LET elem == elems[j] IN
                 (IF elem.parentId # Null /\ elem.parentId # "" /\ elem.parentId \notin idSet
                  THEN << [elementId |-> elem.id, issue |-> elem.parentId] >>
                  ELSE <<>>) \o Issues(j + 1)
    IN [ valid |-> Len(Issues(1)) = 0, issues |-> Issues(1) ]

\* parentId is null at the top of a layer, the id of an element, or an id
\* that no element of the list has ("group_x")
HierarchyInit ==
    /\ icElements \in SeqsUpTo([ id : IcIds,
                                  parentId : { Null, "text_a", "group_c", "group_x" } ],
                                MaxHierElems)
    /\ icPc = "hierarchy"
    /\ idCheck = Undefined
    /\ hierarchyCheck = Undefined
    /\ boundsCheck = Undefined
    /\ Idle("IntegrityChecker")

\* One run of the hierarchy check over the element list.
CheckHierarchy ==
    /\ icPc = "hierarchy"
    /\ hierarchyCheck' = checkHierarchy(icElements)
    /\ icPc' = "hierarchyDone"
    /\ UNCHANGED <<icElements, idCheck, boundsCheck>> /\ Others("IntegrityChecker")

\* indices of the elements whose non-null parentId is no element's id
Dangling(elems) ==
    { j \in 1..Len(elems) :
        /\ elems[j].parentId # Null
        /\ \A i \in 1..Len(elems) : elems[i].id # elems[j].parentId }

\* the report of checkHierarchy names exactly the dangling elements, in
\* list order, and valid tells whether there is none
HierarchyExact ==
    LET d == Dangling(icElements)
        nth(k) == CHOOSE j \in d : Cardinality({ i \in d : i < j }) = k - 1
    IN /\ Len(hierarchyCheck.issues) = Cardinality(d)
       /\ \A k \in 1..Cardinality(d) :
             /\ hierarchyCheck.issues[k].elementId = icElements[nth(k)].id
             /\ hierarchyCheck.issues[k].issue = icElements[nth(k)].parentId
       /\ hierarchyCheck.valid = (d = {})

\* C13: checkHierarchy reports an issue for exactly those elements whose
\* non-null parentId is not the id of any element of the list, valid is
\* true exactly when there are none, and the check leaves the list (every
\* element's parentId) unchanged.
C13_HierarchyReported ==
    [][CheckHierarchy => (icElements' = icElements /\ HierarchyExact')]_vars

\* a finished check of a list with a dangling parentId, a parentId that is
\* an element's id and a null parentId
C13_Witness ==
    /\ icPc = "hierarchyDone"
    /\ Dangling(icElements) # {}
    /\ ~hierarchyCheck.valid
    /\ \E j \in 1..Len(icElements) : icElements[j].parentId = Null
    /\ \E j \in (1..Len(icElements)) \ Dangling(icElements) :
          icElements[j].parentId # Null

\* Longest element list handed to checkBounds.
MaxBoundsElems == 2

\* The artboard CoordinateSystem.getArtboardInfo() reports, and the margin.
Artboard == [width |-> 100, height |-> 60, margin |-> 10]

\* IntegrityChecker.checkBounds(elements, docWidth, docHeight) with the
\* tolerance `margin`; an element without bounds (present is FALSE) is skipped
checkBoundsWithMargin(elems, margin) ==
    LET W == Artboard.width
        H == Artboard.height
        Out(b) == \/ b.right < -margin \/ b.left > W + margin
                  \/ b.bottom < -margin \/ b.top > H + margin
        Part(b) == \/ b.left < -margin \/ b.right > W + margin
                   \/ b.top < -margin \/ b.bottom > H + margin
        Checked == { i \in 1..Len(elems) : elems[i].bounds.present }
        Entry(i) == [elementId |-> elems[i].id, bounds |-> elems[i].bounds]
        RECURSIVE Listed(_, _)
        Listed(i, outside) ==
            IF i > Len(elems) THEN <<>>
            ELSE (IF /\ i \in Checked
                     /\ IF outside THEN Out(elems[i].bounds)
                        ELSE ~Out(elems[i].bounds) /\ Part(elems[i].bounds)
                  THEN <<Entry(i)>> ELSE <<>>) \o Listed(i + 1, outside)
    IN [ valid            |-> Len(Listed(1, TRUE)) = 0,
         outOfBounds      |-> Listed(1, TRUE),
         partiallyVisible |-> Listed(1, FALSE),
         fullyVisible     |-> Cardinality({ i \in Checked :
                                  ~Out(elems[i].bounds) /\ ~Part(elems[i].bounds) }),
         artboardSize     |-> [width |-> W, height |-> H] ]

\* checkBounds without the tolerance
checkBoundsNoMargin(elems) == checkBoundsWithMargin(elems, 0)

\* IntegrityChecker.checkBounds: var margin = 10
checkBounds(elems) == checkBoundsWithMargin(elems, Artboard.margin)

\* Element bounds (artboard-relative, left <= right and top <= bottom) on
\* either side of the artboard and of the tolerance band, and elements
\* without bounds; an element's id is its place in the list.
BoundsInit ==
    /\ LET xs == { <<20, 80>>, <<0, 100>>, <<-5, 50>>, <<-20, 30>>, <<-40, -20>>,
                   <<-30, -10>>, <<50, 120>>, <<115, 130>>, <<-20, 130>> }
           ys == { <<10, 50>>, <<-8, 66>>, <<-30, 20>>, <<75, 90>> }
           boxes == { [present |-> TRUE, left |-> x[1], right |-> x[2],
                       top |-> y[1], bottom |-> y[2]] : x \in xs, y \in ys }
                    \cup { [present |-> FALSE, left |-> 0, right |-> 0,
                            top |-> 0, bottom |-> 0] }
       IN icElements \in { [k \in 1..Len(f) |-> [id |-> k, bounds |-> f[k]]] :
                              f \in SeqsUpTo(boxes, MaxBoundsElems) }
    /\ icPc = "bounds"
    /\ idCheck = Undefined
    /\ hierarchyCheck = Undefined
    /\ boundsCheck = Undefined
    /\ Idle("IntegrityChecker")

\* One run of the bounds check over the element list.
CheckBounds ==
    /\ icPc = "bounds"
    /\ boundsCheck' = checkBounds(icElements)
    /\ icPc' = "boundsDone"
    /\ UNCHANGED <<icElements, idCheck, hierarchyCheck>> /\ Others("IntegrityChecker")

\* where the bounds b lie relative to the artboard [0,W]x[0,H] and to the
\* tolerance box [-10,W+10]x[-10,H+10]
Placement(b) ==
    LET W == boundsCheck.artboardSize.width
        H == boundsCheck.artboardSize.height
    IN IF b.left >= 0 /\ b.right <= W /\ b.top >= 0 /\ b.bottom <= H THEN "within"
       ELSE IF \/ b.right < -10 \/ b.left > W + 10
               \/ b.bottom < -10 \/ b.top > H + 10 THEN "outside"
       ELSE IF \/ b.left < -10 \/ b.right > W + 10
               \/ b.top < -10 \/ b.bottom > H + 10 THEN "crossing"
       ELSE "inMargin"

\* ids listed in a result list of checkBounds
ListedIds(list) == { list[k].elementId : k \in 1..Len(list) }

\* C14: an element whose bounds lie entirely within the artboard is counted
\* in fullyVisible (and listed nowhere), one entirely outside the tolerance
\* box is listed in outOfBounds, and one that crosses the tolerance band
\* without being fully outside is listed in partiallyVisible; nothing else
\* is listed.
C14_BoundsClassified ==
    icPc = "boundsDone" =>
        LET checked == { i \in 1..Len(icElements) : icElements[i].bounds.present }
            place(i) == Placement(icElements[i].bounds)
        IN /\ ListedIds(boundsCheck.outOfBounds) = { i \in checked : place(i) = "outside" }
           /\ ListedIds(boundsCheck.partiallyVisible) =
                 { i \in checked : place(i) = "crossing" }
           /\ boundsCheck.fullyVisible =
                 Cardinality({ i \in checked : place(i) \in { "within", "inMargin" } })
           /\ Len(boundsCheck.outOfBounds) + Len(boundsCheck.partiallyVisible)
                 + boundsCheck.fullyVisible = Cardinality(checked)

\* a finished check with one element counted fully visible and one listed
\* as crossing the band
C14_Witness ==
    /\ icPc = "boundsDone"
    /\ boundsCheck.fullyVisible = 1
    /\ Len(boundsCheck.partiallyVisible) = 1
    /\ \E i \in 1..Len(icElements) :
          /\ icElements[i].bounds.present
          /\ Placement(icElements[i].bounds) = "within"

\* ------------------------------------------------------------------------
\* Strings: a JavaScript string is the sequence of its UTF-16 code units
\* ------------------------------------------------------------------------

\* s.charCodeAt(i - 1), or -1 (NaN) outside the string
At(s, i) == IF i \in 1..Len(s) THEN s[i] ELSE -1

\* \d, \w and \s of a JavaScript regular expression
IsDigit(c) == c \in 48..57
IsWord(c) == c \in (48..57) \cup (65..90) \cup (97..122) \cup {95}
IsSpace(c) == c \in {9, 10, 11, 12, 13, 32, 160, 8232, 8233, 12288, 65279}

\* the n code units from position p on are all digits
Digits(s, p, n) == \A k \in p..(p + n - 1) : IsDigit(At(s, k))

\* the code units at positions p..q are all white space (true when q < p)
Spaces(s, p, q) == \A k \in p..q : IsSpace(At(s, k))

\* kw occurs in s at position p
HasAt(s, kw, p) ==
    /\ p >= 1
    /\ p + Len(kw) - 1 <= Len(s)
    /\ \A k \in 1..Len(kw) : s[p + k - 1] = kw[k]

\* s.indexOf(kw) >= 0
Contains(s, kw) == \E p \in 1..Len(s) : HasAt(s, kw, p)

\* s.indexOf(kw) === 0
StartsWith(s, kw) == HasAt(s, kw, 1)

\* some alternative of a keyword pattern occurs in s
ContainsAny(s, kws) == \E kw \in kws : Contains(s, kw)

\* ASCII case folding of the /i flag
Lower(s) == [k \in 1..Len(s) |-> IF s[k] \in 65..90 THEN s[k] + 32 ELSE s[k]]

\* content.replace(/^\s+|\s+$/g, "")
Trim(s) ==
    LET RECURSIVE TrimLeft(_)
        TrimLeft(t) == IF Len(t) > 0 /\ IsSpace(t[1]) THEN TrimLeft(Tail(t)) ELSE t
        RECURSIVE TrimRight(_)
        TrimRight(t) ==
            IF Len(t) > 0 /\ IsSpace(t[Len(t)])
            THEN TrimRight(SubSeq(t, 1, Len(t) - 1)) ELSE t
    IN TrimRight(TrimLeft(s))

\* ------------------------------------------------------------------------
\* IdGenerator (content-hash ids)
\* ------------------------------------------------------------------------

\* Most items in the tree whose ids are generated.
MaxGenItems == 2

\* Most bumps of IdGenerator.counters[type] between traversals.
MaxGenCounter == 2

\* the id with IdGenerator.counters[type] added to the hashed key
generateStableIdCounted(item, context) ==
    Lower(item.typename) \o <<95>> \o <<48 + Len(gSeq)>>

\* The DJB2 loop of hashContent over the characters str[a..b], from the
\* hash h = <<hi, lo>> standing for hi * 2^16 + lo:
\* hash = (((hash << 5) + hash) + c) & 0x7FFFFFFF.  The range is halved and
\* h is looked at first (it is never negative), so that the hash of the left
\* half is computed before the right half is entered.
RECURSIVE Djb2(_, _, _, _)
Djb2(str, h, a, b) ==
    IF h[1] < 0 \/ a > b THEN h
    ELSE IF a = b
    THEN << (h[1] * 33 + ((h[2] * 33 + str[a]) \div 65536)) % 32768,
            (h[2] * 33 + str[a]) % 65536 >>
    ELSE Djb2(str, Djb2(str, h, a, (a + b) \div 2), (a + b) \div 2 + 1, b)

\* IdGenerator.generateStableId(item, context) with hashContent: the key
\* string, its DJB2 hash kept to 31 bits (held as two 16-bit halves),
\* printed in base 16.  Positions and sizes are in tenths; Math.round rounds
\* a half upwards.
generateStableId(item, context) ==
    LET \* decimal digits of n, -9999 <= n <= 9999, without leading zeros
        Dec(n) ==
            LET m == IF n < 0 THEN -n ELSE n
                all == << m \div 1000, (m \div 100) % 10, (m \div 10) % 10, m % 10 >>
                from == IF m >= 1000 THEN 1 ELSE IF m >= 100 THEN 2
                        ELSE IF m >= 10 THEN 3 ELSE 4
            IN (IF n < 0 THEN <<45>> ELSE <<>>)
               \o [k \in 1..(5 - from) |-> 48 + all[from + k - 1]]
        Round(t) == (t + 5) \div 10
        str == item.typename
               \o <<124>> \o Dec(Round(item.position[1]))
               \o <<44>> \o Dec(Round(item.position[2]))
               \o <<124>> \o Dec(Round(item.width))
               \o <<120>> \o Dec(Round(item.height))
               \o <<124>> \o Dec(context.layerIndex)
               \o <<124>> \o context.path
               \o (IF item.typename = <<84, 101, 120, 116, 70, 114, 97, 109, 101>>
                      /\ Len(item.contents) > 0
                   THEN <<124>> \o SubSeq(item.contents, 1,
                                          IF Len(item.contents) < 20
                                          THEN Len(item.contents) ELSE 20)
                   ELSE <<>>)
        hash == Djb2(str, <<0, 5381>>, 1, Len(str))
        \* hash.toString(16): the eight base-16 digits without leading zeros
        digit(d) == IF d < 10 THEN 48 + d ELSE 87 + d
        all == << hash[1] \div 4096, (hash[1] \div 256) % 16, (hash[1] \div 16) % 16,
                  hash[1] % 16,
                  hash[2] \div 4096, (hash[2] \div 256) % 16, (hash[2] \div 16) % 16,
                  hash[2] % 16 >>
        lead == IF \E k \in 1..8 : all[k] # 0
                THEN CHOOSE k \in 1..8 : all[k] # 0 /\ \A j \in 1..(k - 1) : all[j] = 0
                ELSE 8
    IN Lower(item.typename) \o <<95>>
       \o [k \in 1..(9 - lead) |-> digit(all[lead + k - 1])]

\* The types createBase hands to generateSequentialId: "text", "path".
SeqTypes == { <<116, 101, 120, 116>>, <<112, 97, 116, 104>> }

\* Most resets followed, and most entries of the record of calls and resets.
MaxResets == 1
MaxGenCalls == 4

\* A generator that leaves the counter of the type as it is.
generateSequentialIdNoBump(typeCounters, type) ==
    [ counters |-> typeCounters,
      id |-> Lower(type) \o <<95>> \o <<48 + typeCounters[type] + 1>> ]

\* IdGenerator.generateSequentialId(type): counters[type] goes up by one
\* from (counters[type] || 0) and the id is the lower-cased type, "_" and
\* the new count (below 100 here).
generateSequentialId(typeCounters, type) ==
    LET n == typeCounters[type] + 1
    IN [ counters |-> [ typeCounters EXCEPT ![type] = n ],
         id |-> Lower(type) \o <<95>>
                \o (IF n < 10 THEN <<48 + n>> ELSE <<48 + (n \div 10), 48 + (n % 10)>>) ]

\* The items of a tree with the context the traversal hands to createBase:
\* text frames (one of 21 and one of 22 characters that agree on the first
\* 20) and a path item, at two places.
GenInit ==
    /\ LET TextFrame == <<84, 101, 120, 116, 70, 114, 97, 109, 101>>
           PathItem == <<80, 97, 116, 104, 73, 116, 101, 109>>
           long == [k \in 1..20 |-> 97]
           items == { [typename |-> TextFrame, position |-> <<125, -304>>,
                       width |-> 1000, height |-> 204, contents |-> c] :
                         c \in { <<72, 105>>, long \o <<98>>, long \o <<99, 100>> } }
                    \cup { [typename |-> PathItem, position |-> <<125, -304>>,
                            width |-> 1000, height |-> 204, contents |-> <<>>],
                           [typename |-> PathItem, position |-> <<-125, 296>>,
                            width |-> 15, height |-> 6, contents |-> <<>>] }
           contexts == { [layerIndex |-> 0, path |-> <<48>>],
                         [layerIndex |-> 1, path |-> <<48, 47, 49>>] }
       IN gItems \in SeqsUpTo([item : items, context : contexts], MaxGenItems) \ { <<>> }
    /\ gCounter = [ type \in SeqTypes |-> 0 ]
    /\ gIds = <<>>
    /\ gSeq = <<>>
    /\ Idle("IdGenerator")

\* the traversal under way, if any: the last one, while items remain
GenCurrent ==
    IF Len(gIds) > 0 /\ Len(gIds[Len(gIds)].ids) < Len(gItems) THEN Len(gIds) ELSE 0

\* createBase for the next item of a traversal with
\* CONFIG.parse.generateStableIds set: generateStableId gives its id.  A
\* second traversal starts when the first is over.
GenerateId ==
    /\ GenCurrent # 0 \/ Len(gIds) < 2
    /\ LET done == IF GenCurrent # 0 THEN gIds[GenCurrent].ids ELSE <<>>
           next == gItems[Len(done) + 1]
           run == [ counter |-> gCounter,
                    ids |-> Append(done, generateStableId(next.item, next.context)) ]
       IN gIds' = IF GenCurrent # 0 THEN [gIds EXCEPT ![GenCurrent] = run]
                  ELSE Append(gIds, run)
    /\ UNCHANGED <<gItems, gCounter, gSeq>> /\ Others("IdGenerator")

\* createBase without CONFIG.parse.generateStableIds, between the
\* traversals: generateSequentialId(type) gives the id and the counter of
\* the type goes up.
GenerateSequential ==
    /\ GenCurrent = 0
    /\ Len(gSeq) < MaxGenCalls
    /\ \E type \in SeqTypes :
          /\ gCounter[type] < MaxGenCounter
          /\ LET g == generateSequentialId(gCounter, type)
             IN /\ gCounter' = g.counters
                /\ gSeq' = Append(gSeq, [ type |-> type, id |-> g.id ])
    /\ UNCHANGED <<gItems, gIds>> /\ Others("IdGenerator")

\* IdGenerator.reset(), which main calls before a traversal: counters = {}.
\* A reset is recorded as an entry without a type.
Reset ==
    /\ GenCurrent = 0
    /\ gSeq # <<>>
    /\ Len(gSeq) < MaxGenCalls
    /\ Len(SelectSeq(gSeq, LAMBDA c : c.type = <<>>)) < MaxResets
    /\ gCounter' = [ type \in SeqTypes |-> 0 ]
    /\ gSeq' = Append(gSeq, [ type |-> <<>>, id |-> <<>> ])
    /\ UNCHANGED <<gItems, gIds>> /\ Others("IdGenerator")

SinceReset(j) ==
    LET resets == { r \in 1..j : gSeq[r].type = <<>> }
        from == IF resets = {} THEN 1
                ELSE 1 + CHOOSE r \in resets : \A q \in resets : q <= r
    IN { k \in from..j : gSeq[k].type # <<>> }

transformBounds(cs, bounds) ==
    LET \* round(num) == Math.round(num * 100) / 100, halves towards +infinity
        round(num) == (num + 5) \div 10
        abs(num)   == IF num < 0 THEN -num ELSE num
        aiLeft   == bounds[1]
        aiTop    == bounds[2]
        aiRight  == bounds[3]
        aiBottom == bounds[4]
        width    == aiRight - aiLeft
        height   == aiTop - aiBottom
        relLeft   == aiLeft - cs.artboardLeft
        relTop    == cs.artboardTop - aiTop
        relRight  == aiRight - cs.artboardLeft
        relBottom == cs.artboardTop - aiBottom
    IN  IF cs.useArtboardRelative
        THEN [left |-> round(relLeft), top |-> round(relTop),
              right |-> round(relRight), bottom |-> round(relBottom),
              width |-> round(width), height |-> round(height)]
        ELSE IF cs.origin = "top-left"
        THEN [left |-> round(aiLeft), top |-> round(-aiTop),
              right |-> round(aiRight), bottom |-> round(-aiBottom),
              width |-> round(width), height |-> round(height)]
        ELSE [left |-> round(aiLeft), top |-> round(aiTop),
              right |-> round(aiRight), bottom |-> round(aiBottom),
              width |-> round(width), height |-> round(abs(height))]

\* After init(doc, config): an artboard rectangle, the two coordinate
\* settings, and the geometricBounds of one item (left <= right, top >= bottom,
\* as Illustrator reports them).
CoordInit ==
    /\ Idle("CoordinateSystem")
    /\ \E al \in {0, 1000}, at \in {0, 2000}, rel \in BOOLEAN,
          origin \in {"top-left", "bottom-left"},
          l \in {0, 5, 1004, 2500}, r \in {0, 5, 1004, 2500},
          t \in {2000, 0, -5, -1004}, b \in {2000, 0, -5, -1004} :
          /\ l <= r /\ t >= b
          /\ csIn = [cs |-> [artboardLeft |-> al, artboardTop |-> at,
                             useArtboardRelative |-> rel, origin |-> origin],
                     bounds |-> <<l, t, r, b>>]
    /\ csOut = <<>>
    /\ csPc = "start"

\* One call of CoordinateSystem.transformBounds.
TransformBounds ==
    /\ csPc = "start"
    /\ csOut' = transformBounds(csIn.cs, csIn.bounds)
    /\ csPc' = "done"
    /\ UNCHANGED <<csIn>> /\ Others("CoordinateSystem")

\* C16: the bounds transformBounds returns are consistent: right - left is
\* the width, bottom - top is the height, and neither size is negative.
C16_BoundsConsistent ==
    csPc = "done" =>
        /\ csOut.right - csOut.left = csOut.width
        /\ csOut.bottom - csOut.top = csOut.height
        /\ csOut.width >= 0
        /\ csOut.height >= 0

\* ------------------------------------------------------------------------
\* ErrorHandler (error records and safe execution)
\* ------------------------------------------------------------------------

\* Most safeExecute calls followed.
MaxCalls == 3

\* ErrorHandler.maxErrors: the most entries either list takes.
maxErrors == 100

\* safeExecute(fn, errorDef, context) with the lists as they stand: fn either
\* returns or throws.  When it throws, handle(errorDef, context, e) files an
\* entry under warnings (warning, info) or errors (anything else) unless the
\* list is full, tries the recovery strategy of a recoverable error (what it
\* returns is dropped, and a strategy that throws is caught), and throws a
\* new Error for a fatal error while stopOnFatal is set.  `outcome.ended` tells how the call
\* ended: "returned" with the object returned, or "thrown".
safeExecute(fnThrows, errorDef, errors, warnings) ==
    LET filedAsWarning == errorDef.type \in { "warning", "info" }
        handleThrows == errorDef.type = "fatal"    \* stopOnFatal: true
    IN IF ~fnThrows
       THEN [ errors |-> errors, warnings |-> warnings,
              outcome |-> [ ended |-> "returned", success |-> TRUE,
                            fnThrew |-> FALSE, code |-> errorDef.code ] ]
       ELSE [ errors |-> IF ~filedAsWarning /\ Len(errors) < maxErrors
                         THEN Append(errors, errorDef.code) ELSE errors,
              warnings |-> IF filedAsWarning /\ Len(warnings) < maxErrors
                           THEN Append(warnings, errorDef.code) ELSE warnings,
              outcome |-> [ ended |-> IF handleThrows THEN "thrown" ELSE "returned",
                            success |-> FALSE,
                            fnThrew |-> TRUE, code |-> errorDef.code ] ]

\* After ErrorHandler.init(): both lists empty, no call made yet.
EhInit ==
    /\ Idle("ErrorHandler")
    /\ ehErrors = <<>>
    /\ ehWarnings = <<>>
    /\ ehOut = <<>>

\* One call of ErrorHandler.safeExecute, with one of the error definitions
\* of ErrorCodes (one of each type) and a function that returns or throws.
\* An exception that leaves safeExecute ends the script.
SafeExecute ==
    /\ Len(ehOut) < MaxCalls
    /\ IF ehOut = <<>> THEN TRUE ELSE ehOut[Len(ehOut)].ended = "returned"
    /\ \E fnThrows \in BOOLEAN,
          errorDef \in { [ code |-> 102, type |-> "fatal" ],
                         [ code |-> 200, type |-> "recoverable" ],
                         [ code |-> 300, type |-> "warning" ],
                         [ code |-> 302, type |-> "info" ] } :
          LET r == safeExecute(fnThrows, errorDef, ehErrors, ehWarnings)
          IN /\ ehErrors' = r.errors
             /\ ehWarnings' = r.warnings
             /\ ehOut' = Append(ehOut, r.outcome)
    /\ Others("ErrorHandler")

\* C18: no safeExecute call lets an exception escape: a call whose fn threw
\* has returned success false with the error on record, and a call whose fn
\* returned has returned success true.
C18_NothingEscapes ==
    \A k \in 1..Len(ehOut) :
        /\ ehOut[k].ended = "returned"
        /\ ehOut[k].success = ~ehOut[k].fnThrew
        /\ ehOut[k].fnThrew =>
              \E i \in 1..Len(ehErrors \o ehWarnings) :
                  (ehErrors \o ehWarnings)[i] = ehOut[k].code

\* ------------------------------------------------------------------------
\* main (layer traversal, Cancel, later phases)
\* ------------------------------------------------------------------------

\* Most layers of a document, and most page items of a layer.
MaxDocLayers == 2
MaxLayerItems == 11

\* traverseItems refreshes the progress dialog every so many elements.
UpdateEvery == 10

\* main has reached the layer loop: a document of one or more layers, nothing
\* processed, Cancel not pressed.
MainInit ==
    /\ Idle("main")
    /\ mLayers \in SeqsUpTo(0..MaxLayerItems, MaxDocLayers) \ { <<>> }
    /\ mL = 0
    /\ mItem = 0
    /\ mProcessed = 0
    /\ mCancelled = FALSE
    /\ mPc = "layer"

\* main, the head of one iteration of the layer loop: past the last layer
\* the loop is left for the later phases; a pending Cancel closes the dialog
\* and returns; otherwise setPhase refreshes the dialog, which is when a
\* click on Cancel is delivered (cancelBtn.onClick), and traverseItems is
\* entered for the layer.
LayerLoop ==
    /\ mPc = "layer"
    /\ IF mL >= Len(mLayers)
       THEN mPc' = "phases" /\ UNCHANGED <<mCancelled, mItem>>
       ELSE IF mCancelled
       THEN mPc' = "cancelled" /\ UNCHANGED <<mCancelled, mItem>>
       ELSE /\ \E click \in BOOLEAN : mCancelled' = click
            /\ mItem' = 0
            /\ mPc' = "traverse"
    /\ UNCHANGED <<mLayers, mL, mProcessed>> /\ Others("main")

\* traverseItems, one iteration over the items of layer l: the element is
\* pushed and counted; on every tenth element the dialog is refreshed (a
\* click on Cancel is delivered then) and a set flag makes traverseItems
\* return.  Out of items, it returns as well; main moves to the next layer.
TraverseLayerItems ==
    /\ mPc = "traverse"
    /\ IF mItem >= mLayers[mL + 1]
       THEN /\ mL' = mL + 1
            /\ mPc' = "layer"
            /\ UNCHANGED <<mItem, mProcessed, mCancelled>>
       ELSE /\ mProcessed' = mProcessed + 1
            /\ IF (mProcessed + 1) % UpdateEvery = 0
               THEN \E click \in BOOLEAN :
                      /\ mCancelled' = (mCancelled \/ click)
                      /\ IF mCancelled \/ click
                         THEN mL' = mL + 1 /\ mPc' = "layer" /\ mItem' = mItem
                         ELSE mItem' = mItem + 1 /\ UNCHANGED <<mL, mPc>>
               ELSE mItem' = mItem + 1 /\ UNCHANGED <<mL, mPc, mCancelled>>
    /\ UNCHANGED <<mLayers>> /\ Others("main")

\* main after the layer loop: statistics, variable detection, pattern
\* matching, export, and the results are saved.  None of these reads the
\* Cancel flag.
LaterPhases ==
    /\ mPc = "phases"
    /\ mPc' = "saved"
    /\ UNCHANGED <<mLayers, mL, mItem, mProcessed, mCancelled>> /\ Others("main")

\* C19: once Cancel has been pressed during layer traversal, the run
\* eventually stops at the cancel exit of main, whichever layer was being
\* traversed; it then has neither run the later phases nor saved results.
C19_CancelStopsRun == [](mCancelled => <>(mPc = "cancelled"))

\* ------------------------------------------------------------------------
\* Array.prototype.sort with a comparison function
\* ------------------------------------------------------------------------

\* The orders arr.sort(compareFn) can leave the array in; c[<<a, b>>] is
\* compareFn(arr[a], arr[b]).  The language fixes neither the algorithm nor
\* the order of elements that compare equal; an insertion or merge sort
\* leaves every neighbouring pair in comparator order, which for a
\* consistent comparator is exactly "sorted, ties in any order".
SortOutcomes(arr, c) ==
    LET n == Len(arr)
        perms == { f \in [1..n -> 1..n] : \A a, b \in 1..n : a # b => f[a] # f[b] }
    IN { [k \in 1..n |-> arr[f[k]]] : f \in
           { g \in perms : \A k \in 1..(n - 1) : c[<<g[k], g[k + 1]>>] <= 0 } }

\* ------------------------------------------------------------------------
\* PrefixParser and ELEMENT_PREFIXES
\* ------------------------------------------------------------------------

\* The prefix table, in declaration order (prefixes as code units).
ELEMENT_PREFIXES ==
    <<
       [prefix |-> <<116, 120, 116, 95>>, type |-> "text", replaceable |-> TRUE, role |-> "dynamic_text"],
       [prefix |-> <<116, 105, 116, 108, 101, 95>>, type |-> "text", replaceable |-> TRUE, role |-> "heading"],
       [prefix |-> <<115, 117, 98, 116, 105, 116, 108, 101, 95>>, type |-> "text", replaceable |-> TRUE, role |-> "subheading"],
       [prefix |-> <<108, 97, 98, 101, 108, 95>>, type |-> "text", replaceable |-> TRUE, role |-> "label"],
       [prefix |-> <<100, 101, 115, 99, 95>>, type |-> "text", replaceable |-> TRUE, role |-> "description"],
       [prefix |-> <<110, 97, 109, 101, 95>>, type |-> "text", replaceable |-> TRUE, role |-> "person_name"],
       [prefix |-> <<100, 97, 116, 101, 95>>, type |-> "text", replaceable |-> TRUE, role |-> "date"],
       [prefix |-> <<112, 114, 105, 99, 101, 95>>, type |-> "text", replaceable |-> TRUE, role |-> "price"],
       [prefix |-> <<105, 109, 103, 95>>, type |-> "image", replaceable |-> TRUE, role |-> "dynamic_image"],
       [prefix |-> <<112, 104, 111, 116, 111, 95>>, type |-> "image", replaceable |-> TRUE, role |-> "photo"],
       [prefix |-> <<97, 118, 97, 116, 97, 114, 95>>, type |-> "image", replaceable |-> TRUE, role |-> "avatar"],
       [prefix |-> <<98, 97, 110, 110, 101, 114, 95>>, type |-> "image", replaceable |-> TRUE, role |-> "banner"],
       [prefix |-> <<116, 104, 117, 109, 98, 95>>, type |-> "image", replaceable |-> TRUE, role |-> "thumbnail"],
       [prefix |-> <<108, 111, 103, 111, 95>>, type |-> "logo", replaceable |-> TRUE, role |-> "branding"],
       [prefix |-> <<105, 99, 111, 110, 95>>, type |-> "icon", replaceable |-> TRUE, role |-> "symbol"],
       [prefix |-> <<113, 114, 95>>, type |-> "qrcode", replaceable |-> TRUE, role |-> "dynamic_code"],
       [prefix |-> <<98, 97, 114, 99, 111, 100, 101, 95>>, type |-> "barcode", replaceable |-> TRUE, role |-> "dynamic_code"],
       [prefix |-> <<98, 116, 110, 95>>, type |-> "button", replaceable |-> FALSE, role |-> "interactive"],
       [prefix |-> <<108, 105, 110, 107, 95>>, type |-> "link", replaceable |-> FALSE, role |-> "interactive"],
       [prefix |-> <<105, 110, 112, 117, 116, 95>>, type |-> "input", replaceable |-> FALSE, role |-> "form"],
       [prefix |-> <<98, 103, 95>>, type |-> "background", replaceable |-> TRUE, role |-> "decoration"],
       [prefix |-> <<109, 97, 115, 107, 95>>, type |-> "mask", replaceable |-> FALSE, role |-> "decoration"],
       [prefix |-> <<108, 105, 110, 101, 95>>, type |-> "divider", replaceable |-> FALSE, role |-> "decoration"],
       [prefix |-> <<98, 111, 120, 95>>, type |-> "container", replaceable |-> FALSE, role |-> "layout"],
       [prefix |-> <<99, 97, 114, 100, 95>>, type |-> "card", replaceable |-> FALSE, role |-> "layout"],
       [prefix |-> <<108, 105, 115, 116, 95>>, type |-> "list", replaceable |-> TRUE, role |-> "data"],
       [prefix |-> <<116, 97, 98, 108, 101, 95>>, type |-> "table", replaceable |-> TRUE, role |-> "data"],
       [prefix |-> <<99, 104, 97, 114, 116, 95>>, type |-> "chart", replaceable |-> TRUE, role |-> "data"]
    >>

\* Stands for the null that PrefixParser.parse returns.
NoPrefix == [prefix |-> <<>>, type |-> "", replaceable |-> FALSE, role |-> ""]

\* PrefixParser.parse(name): the first table entry whose prefix starts name.
RECURSIVE PrefixScan(_, _)
PrefixScan(name, k) ==
    IF k > Len(ELEMENT_PREFIXES) THEN NoPrefix
    ELSE IF StartsWith(name, ELEMENT_PREFIXES[k].prefix) THEN ELEMENT_PREFIXES[k]
    ELSE PrefixScan(name, k + 1)

PrefixParse(name) == IF Len(name) = 0 THEN NoPrefix ELSE PrefixScan(name, 1)

\* ------------------------------------------------------------------------
\* MultiTagDetector
\* ------------------------------------------------------------------------

\* VAR_TYPES: key and category of every variable type (labels left out).
VAR_TYPES ==
    [ PERSON_NAME  |-> [key |-> "name",        category |-> "person"],
      PERSON_TITLE |-> [key |-> "title",       category |-> "person"],
      DATE         |-> [key |-> "date",        category |-> "time"],
      TIME         |-> [key |-> "time",        category |-> "time"],
      EVENT_TITLE  |-> [key |-> "event_title", category |-> "event"],
      SLOGAN       |-> [key |-> "slogan",      category |-> "event"],
      PHONE        |-> [key |-> "phone",       category |-> "contact"],
      EMAIL        |-> [key |-> "email",       category |-> "contact"],
      ADDRESS      |-> [key |-> "address",     category |-> "contact"],
      WECHAT       |-> [key |-> "wechat",      category |-> "contact"],
      PRICE        |-> [key |-> "price",       category |-> "number"],
      PERCENT      |-> [key |-> "percent",     category |-> "number"],
      AVATAR       |-> [key |-> "avatar",      category |-> "image"],
      PHOTO        |-> [key |-> "photo",       category |-> "image"],
      LOGO         |-> [key |-> "logo",        category |-> "image"],
      BANNER       |-> [key |-> "banner",      category |-> "image"],
      QRCODE       |-> [key |-> "qrcode",      category |-> "image"],
      TEXT         |-> [key |-> "text",        category |-> "generic"],
      IMAGE        |-> [key |-> "image",       category |-> "generic"] ]

\* compiledRegex.title: the alternatives of the job-title pattern (code units)
TitleKeywords ==
    { <<21019, 22987, 20154>>,
      <<67, 69, 79>>,
      <<67, 84, 79>>,
      <<67, 79, 79>>,
      <<67, 70, 79>>,
      <<24635, 35009>>,
      <<33891, 20107>>,
      <<24635, 30417>>,
      <<32463, 29702>>,
      <<20027, 20219>>,
      <<25945, 25480>>,
      <<21338, 22763>>,
      <<38498, 22763>>,
      <<19987, 23478>>,
      <<39038, 38382>> }

\* compiledRegex.address: the alternatives of the address pattern
AddressKeywords ==
    { <<30465>>,
      <<24066>>,
      <<21306>>,
      <<21439>>,
      <<34903, 36947>>,
      <<36335>>,
      <<21495>>,
      <<27004>>,
      <<23460>>,
      <<22823, 21414>>,
      <<24191, 22330>> }

\* isEventTitle: keywords
EventKeywords ==
    { <<24180, 20250>>,
      <<22823, 20250>>,
      <<23792, 20250>>,
      <<35770, 22363>>,
      <<21457, 24067, 20250>>,
      <<39041, 22870>>,
      <<20856, 31036>>,
      <<26202, 23476>>,
      <<24198, 20856>>,
      <<20202, 24335>>,
      <<30427, 20856>>,
      <<27963, 21160>>,
      <<20250, 35758>>,
      <<23637, 35272>>,
      <<23637, 20250>> }

\* isSlogan: patterns
SloganKeywords ==
    { <<21608, 24180>>,
      <<20043, 22812>>,
      <<33635, 32768>>,
      <<21516, 34892>>,
      <<20849, 36194>>,
      <<25658, 25163>>,
      <<20849, 21019>>,
      <<26410, 26469>> }

\* compiledRegex.date: /\d{4}[.\-\/Y]\d{1,2}[.\-\/M]\d{1,2}/ (Y, M the year
\* and month characters U+5E74, U+6708)
ReDate(s) ==
    \E p \in 1..Len(s), a \in 1..2 :
        /\ Digits(s, p, 4)
        /\ At(s, p + 4) \in {46, 45, 47, 24180}
        /\ Digits(s, p + 5, a)
        /\ At(s, p + 5 + a) \in {46, 45, 47, 26376}
        /\ IsDigit(At(s, p + 6 + a))

\* compiledRegex.time: /\d{1,2}:\d{2}/
ReTime(s) ==
    \E p \in 1..Len(s) :
        IsDigit(At(s, p)) /\ At(s, p + 1) = 58 /\ Digits(s, p + 2, 2)

\* compiledRegex.phone: /1[3-9]\d{9}/
RePhone(s) ==
    \E p \in 1..Len(s) :
        At(s, p) = 49 /\ At(s, p + 1) \in 51..57 /\ Digits(s, p + 2, 9)

\* compiledRegex.email: /[\w.-]+@[\w.-]+\.\w+/
EmailChar(c) == IsWord(c) \/ c \in {46, 45}
ReEmail(s) ==
    \E p \in 1..Len(s) :
        /\ At(s, p) = 64
        /\ EmailChar(At(s, p - 1))
        /\ \E q \in (p + 2)..Len(s) :
              /\ \A k \in (p + 1)..(q - 1) : EmailChar(At(s, k))
              /\ At(s, q) = 46
              /\ IsWord(At(s, q + 1))

\* compiledRegex.price: /[C]\s*[\d,]+/ (C one of U+00A5, U+FFE5, $, U+20AC)
RePrice(s) ==
    \E p \in 1..Len(s) :
        /\ At(s, p) \in {165, 65509, 36, 8364}
        /\ \E q \in (p + 1)..Len(s) :
              Spaces(s, p + 1, q - 1) /\ (IsDigit(At(s, q)) \/ At(s, q) = 44)

\* compiledRegex.percent: /\d+(\.\d+)?\s*%/
RePercent(s) ==
    \E p \in 1..Len(s) :
        /\ IsDigit(At(s, p))
        /\ \E q \in (p + 1)..Len(s) : Spaces(s, p + 1, q - 1) /\ At(s, q) = 37

\* compiledRegex.wechat: /WX[:]?\s*\w+/ (WX the two characters U+5FAE
\* U+4FE1; the colon is ':' or U+FF1A)
ReWechat(s) ==
    \E p \in 1..Len(s), c \in 0..1 :
        /\ HasAt(s, <<24494, 20449>>, p)
        /\ (c = 1 => At(s, p + 2) \in {58, 65306})
        /\ \E q \in (p + 2 + c)..Len(s) :
              Spaces(s, p + 2 + c, q - 1) /\ IsWord(At(s, q))

\* s.replace(/\s+/g, "")
RECURSIVE StripSpaces(_)
StripSpaces(s) ==
    IF Len(s) = 0 THEN <<>>
    ELSE IF IsSpace(s[1]) THEN StripSpaces(Tail(s))
    ELSE <<s[1]>> \o StripSpaces(Tail(s))

\* MultiTagDetector.isChineseName(str)
isChineseName(str) ==
    IF Len(str) = 0 THEN FALSE
    ELSE LET cleaned == StripSpaces(str) IN
         /\ Len(cleaned) >= 2
         /\ Len(cleaned) <= 4
         /\ \A k \in 1..Len(cleaned) : ~(cleaned[k] < 19968 \/ cleaned[k] > 40869)

\* MultiTagDetector.isEventTitle(str)
isEventTitle(str) == Len(str) >= 4 /\ ContainsAny(str, EventKeywords)

\* MultiTagDetector.isSlogan(str)
isSlogan(str) ==
    /\ Len(str) >= 4
    /\ Len(str) <= 30
    /\ \/ ContainsAny(str, SloganKeywords)
       \/ (Contains(str, <<31532>>) /\ Contains(str, <<23626>>))

\* One pushed tag; confidences are in hundredths.
Tag(type, varType, confidence) ==
    [type |-> type, varType |-> varType, confidence |-> confidence]

\* <<t>> when the rule fired, else nothing: one `if (...) tags.push(...)`
PushIf(cond, t) == IF cond THEN <<t>> ELSE <<>>

\* detectText: the tags in push order, before the sort
TextTags(trimmed) ==
    LET specific ==
            PushIf(ReDate(trimmed),    Tag("date",    VAR_TYPES.DATE, 95))
         \o PushIf(ReTime(trimmed),    Tag("time",    VAR_TYPES.TIME, 90))
         \o PushIf(RePhone(trimmed),   Tag("phone",   VAR_TYPES.PHONE, 95))
         \o PushIf(ReEmail(trimmed),   Tag("email",   VAR_TYPES.EMAIL, 95))
         \o PushIf(RePrice(trimmed),   Tag("price",   VAR_TYPES.PRICE, 90))
         \o PushIf(RePercent(trimmed), Tag("percent", VAR_TYPES.PERCENT, 90))
         \o PushIf(ContainsAny(trimmed, TitleKeywords),
                                       Tag("title",   VAR_TYPES.PERSON_TITLE, 85))
         \o PushIf(ReWechat(trimmed),  Tag("wechat",  VAR_TYPES.WECHAT, 90))
         \o PushIf(ContainsAny(trimmed, AddressKeywords),
                                       Tag("address", VAR_TYPES.ADDRESS, 75))
         \o PushIf(isChineseName(trimmed),
                                       Tag("name",    VAR_TYPES.PERSON_NAME, 85))
         \o PushIf(isEventTitle(trimmed),
                                       Tag("event_title", VAR_TYPES.EVENT_TITLE, 85))
         \o PushIf(isSlogan(trimmed),  Tag("slogan",  VAR_TYPES.SLOGAN, 75))
    IN specific
       \o PushIf(Len(specific) = 0 /\ Len(trimmed) >= 2,
                 Tag("text", VAR_TYPES.TEXT, IF Len(trimmed) > 50 THEN 40 ELSE 50))

\* function(a, b) { return b.confidence - a.confidence; } over the tags
ByConfidenceDesc(tags) ==
    [ p \in (1..Len(tags)) \X (1..Len(tags)) |->
        tags[p[2]].confidence - tags[p[1]].confidence ]

\* tags.sort(function(a, b) { return b.confidence - a.confidence; })
SortTags(tags) == SortOutcomes(tags, ByConfidenceDesc(tags))

\* Stands for a null primaryType / an absent detection.
NoType == [key |-> "", category |-> ""]

\* The record a detector returns for sorted tags (maxConfidence -1: the
\* field is absent).
Detection(tags, withMax) ==
    [ tags          |-> tags,
      primaryType   |-> IF Len(tags) > 0 THEN tags[1].varType ELSE NoType,
      allTypes      |-> [k \in 1..Len(tags) |-> tags[k].type],
      maxConfidence |-> IF ~withMax THEN -1
                        ELSE IF Len(tags) > 0 THEN tags[1].confidence ELSE 0 ]

\* MultiTagDetector.detectText(content): every result the sort allows
detectText(content) ==
    IF Len(content) = 0
    THEN { [tags |-> <<>>, primaryType |-> NoType, allTypes |-> <<>>, maxConfidence |-> -1] }
    ELSE { Detection(sorted, TRUE) :
             sorted \in SortTags(TextTags(Trim(content))) }

\* height || 1
OrOne(h) == IF h = 0 THEN 1 ELSE h

\* detectImage whose qrcode rule carries confidence 0.9
ImageTagsQrcodeFirst(width, height) ==
    LET hh == OrOne(height)
        specific ==
            PushIf(10 * width > 8 * hh /\ 10 * width < 12 * hh /\ width >= 50 /\ width <= 500,
                   Tag("avatar", VAR_TYPES.AVATAR, 85))
         \o PushIf(100 * width > 95 * hh /\ 100 * width < 105 * hh /\ width >= 80 /\ width <= 300,
                   Tag("qrcode", VAR_TYPES.QRCODE, 90))
         \o PushIf(width < 300 /\ height < 150, Tag("logo", VAR_TYPES.LOGO, 60))
         \o PushIf(10 * width > 25 * hh /\ width > 400, Tag("banner", VAR_TYPES.BANNER, 85))
         \o PushIf(width > 200 /\ height > 200, Tag("photo", VAR_TYPES.PHOTO, 60))
    IN specific \o PushIf(Len(specific) = 0, Tag("image", VAR_TYPES.IMAGE, 50))

\* detectImage: the tags in push order; ratio = width / (height || 1), and
\* ratio > n/d is d * width > n * (height || 1) for the sizes >= 0 used here
ImageTags(width, height) ==
    LET hh == OrOne(height)
        specific ==
            PushIf(10 * width > 8 * hh /\ 10 * width < 12 * hh /\ width >= 50 /\ width <= 500,
                   Tag("avatar", VAR_TYPES.AVATAR, 85))
         \o PushIf(100 * width > 95 * hh /\ 100 * width < 105 * hh /\ width >= 80 /\ width <= 300,
                   Tag("qrcode", VAR_TYPES.QRCODE, 80))
         \o PushIf(width < 300 /\ height < 150, Tag("logo", VAR_TYPES.LOGO, 60))
         \o PushIf(10 * width > 25 * hh /\ width > 400, Tag("banner", VAR_TYPES.BANNER, 85))
         \o PushIf(width > 200 /\ height > 200, Tag("photo", VAR_TYPES.PHOTO, 60))
    IN specific \o PushIf(Len(specific) = 0, Tag("image", VAR_TYPES.IMAGE, 50))

\* MultiTagDetector.detectImage(width, height)
detectImage(width, height) ==
    { Detection(sorted, FALSE) :
        sorted \in SortTags(ImageTags(width, height)) }

\* the three name patterns of detectShape (/i: matched on the folded name)
ShapeWords ==
    [ bg     |-> { <<98, 103>>, <<32972, 26223>>,
                   <<98, 97, 99, 107, 103, 114, 111, 117, 110, 100>> },
      circle |-> { <<99, 105, 114, 99, 108, 101>>, <<22278>>, <<22280>> },
      line   |-> { <<108, 105, 110, 101>>, <<32447>>, <<20998, 21106>> } ]

\* detectShape: the shape type and its confidence
ShapeKind(width, height, name) ==
    LET hh == OrOne(height)
        nm == Lower(name)
    IN  IF Len(name) > 0 /\ ContainsAny(nm, ShapeWords.bg)
            THEN [shapeType |-> "bg_shape", confidence |-> 70]
        ELSE IF Len(name) > 0 /\ ContainsAny(nm, ShapeWords.circle)
            THEN [shapeType |-> "circle", confidence |-> 70]
        ELSE IF Len(name) > 0 /\ ContainsAny(nm, ShapeWords.line)
            THEN [shapeType |-> "line", confidence |-> 70]
        ELSE IF 10 * width > 9 * hh /\ 10 * width < 11 * hh /\ width < 200
            THEN [shapeType |-> "circle", confidence |-> 60]
        ELSE IF width > 10 * hh \/ 10 * width < hh
            THEN [shapeType |-> "line", confidence |-> 60]
        ELSE IF width > 500 /\ height > 500
            THEN [shapeType |-> "bg_shape", confidence |-> 60]
        ELSE [shapeType |-> "shape", confidence |-> 50]

\* MultiTagDetector.detectShape(width, height, name)
detectShape(width, height, name) ==
    LET k == ShapeKind(width, height, name) IN
    { [ tags          |-> <<[type |-> k.shapeType, confidence |-> k.confidence]>>,
        primaryType   |-> [key |-> k.shapeType, category |-> "shape"],
        allTypes      |-> <<k.shapeType>>,
        maxConfidence |-> k.confidence ] }

\* ------------------------------------------------------------------------
\* VariableNamer and VariableDetectorV2.processElements
\* ------------------------------------------------------------------------

\* Longest element list of one detection pass.
MaxDetElems == 3

\* The null passed as generateId's index (an undefined index is NoIndex).
NullIndex == -2

\* Every field type the namer can be asked to count.
NamerKeys ==
    { VAR_TYPES[n].key : n \in DOMAIN VAR_TYPES }
        \cup {"bg_shape", "circle", "line", "shape", "unknown", "item"}

\* VariableNamer.reset(): an absent counter reads as 0
ResetCounters == [k \in NamerKeys |-> 0]

\* VariableNamer.generateId(patternName, fieldType, index) on counters cnt:
\* the id and the counters afterwards ("" stands for a null patternName or
\* fieldType)
generateId(cnt, patternName, fieldType, index) ==
    IF patternName # "" /\ index # NoIndex
    THEN [id |-> patternName \o "_" \o ToString(index) \o "." \o fieldType,
          counters |-> cnt]
    ELSE IF patternName # ""
    THEN [id |-> patternName \o "." \o fieldType, counters |-> cnt]
    ELSE LET key == IF fieldType = "" THEN "item" ELSE fieldType IN
         [id |-> key \o "_" \o ToString(cnt[key]),
          counters |-> [cnt EXCEPT ![key] = @ + 1]]

\* elem.variable when the element has none
NoVariable ==
    [ set |-> FALSE, isVariable |-> FALSE, variableKey |-> "", typeKey |-> "",
      primaryType |-> "", allTags |-> <<>>, id |-> "" ]

\* elem.variable as an earlier stage leaves it: isVariable and/or a
\* variableKey, and variableType.key (typeKey)
PreTagged(isVariable, variableKey, typeKey) ==
    [ set |-> TRUE, isVariable |-> isVariable, variableKey |-> variableKey,
      typeKey |-> typeKey, primaryType |-> "", allTags |-> <<>>, id |-> "" ]

\* One element of the flattened list, as processElements reads it.
Elem(type, content, name, width, height, variable) ==
    [ type |-> type, content |-> content, name |-> name,
      width |-> width, height |-> height,
      variable |-> variable, replaceable |-> FALSE ]

\* Sample contents and names (code units).
Sample ==
    [ phone    |-> <<49, 51, 56, 49, 50, 51, 52, 53, 54, 55, 56>>,  \* "13812345678"
      zhangSan |-> <<24352, 19977>>,                                \* U+5F20 U+4E09
      hello    |-> <<72, 101, 108, 108, 111>>,                      \* "Hello"
      a        |-> <<65>>,                                          \* "A"
      dateX    |-> <<100, 97, 116, 101, 95, 120>>,                  \* "date_x"
      qr1      |-> <<113, 114, 95, 49>>,                            \* "qr_1"
      bg1      |-> <<98, 103, 95, 49>>,                             \* "bg_1"
      director |-> <<24635, 30417>>,                                \* U+603B U+76D1
      team     |-> <<22242, 38431>> ]                               \* U+56E2 U+961F

\* The elements a detection pass is run on.
DetElemKinds ==
    { Elem("text", Sample.phone, <<>>, 120, 20, NoVariable),
      Elem("text", Sample.zhangSan, <<>>, 60, 20, NoVariable),
      Elem("text", Sample.zhangSan, Sample.dateX, 60, 20, NoVariable),
      Elem("text", Sample.hello, <<>>, 60, 20, NoVariable),
      Elem("text", Sample.a, <<>>, 10, 20, NoVariable),
      Elem("text", Sample.director, <<>>, 40, 20, NoVariable),
      Elem("text", Sample.team, <<>>, 40, 20, NoVariable),
      Elem("text", <<>>, <<>>, 0, 0, NoVariable),
      Elem("text", Sample.zhangSan, <<>>, 60, 20, PreTagged(FALSE, "name_0", "name")),
      Elem("text", Sample.hello, <<>>, 60, 20, PreTagged(TRUE, "", "name")),
      Elem("text", Sample.hello, <<>>, 60, 20, PreTagged(TRUE, "", "")),
      Elem("image_embedded", <<>>, <<>>, 100, 100, NoVariable),
      Elem("image_linked", <<>>, Sample.qr1, 400, 100, NoVariable),
      Elem("path", <<>>, <<>>, 50, 50, NoVariable),
      Elem("path", <<>>, <<>>, 300, 200, NoVariable),
      Elem("compound_path", <<>>, Sample.bg1, 300, 200, NoVariable),
      Elem("group", <<>>, <<>>, 300, 200, NoVariable) }

\* if (elem.variable && (elem.variable.isVariable || elem.variable.variableKey))
IsPreTagged(e) ==
    e.variable.set /\ (e.variable.isVariable \/ e.variable.variableKey # "")

\* a || b on strings: the first non-empty one
OrStr(a, b) == IF a # "" THEN a ELSE b
OrSeq(a, b) == IF Len(a) > 0 THEN a ELSE b

\* variableMap[key] = id
MapPut(m, key, id) == { p \in m : p.key # key } \cup { [key |-> key, id |-> id] }

DetInit ==
    /\ dElements \in SeqsUpTo(DetElemKinds, MaxDetElems)
    /\ dPc = "loop"
    /\ di = 0
    /\ counters = ResetCounters
    /\ variables = <<>>
    /\ variableMap = {}
    /\ debugCount = [text |-> 0, image |-> 0, detected |-> 0, failed |-> 0]
    /\ Idle("VariableDetectorV2")

\* a loop iteration is due for element dElements[di + 1] (its id is di + 1)
AtElem == dPc = "loop" /\ di < Len(dElements)

\* Iteration for an element that already carries a variable: the record is
\* built from elem.variable and no detector is called.
ProcessPreTagged ==
    /\ AtElem
    /\ LET elem == dElements[di + 1]
           v == elem.variable
           g == generateId(counters, "", OrStr(v.typeKey, "unknown"), NullIndex)
           varKey == OrStr(v.variableKey, g.id)
       IN /\ IsPreTagged(elem)
          /\ counters' = IF v.variableKey # "" THEN counters ELSE g.counters
          /\ variables' = Append(variables,
                 [ elementId    |-> di + 1,
                   variableKey  |-> varKey,
                   variableType |-> OrStr(v.typeKey, "text"),
                   confidence   |-> 50,
                   currentValue |-> OrSeq(elem.content, elem.name) ])
          /\ variableMap' = MapPut(variableMap, varKey, di + 1)
          /\ debugCount' = [debugCount EXCEPT !.detected = @ + 1]
    /\ di' = di + 1
    /\ UNCHANGED <<dElements, dPc>> /\ Others("VariableDetectorV2")

\* The tail of an iteration once a detector has returned `detection`:
\* name the variable, write elem.variable and push the record.
Emit(detection, textInc, imageInc) ==
    LET elem == dElements[di + 1]
        primaryType == detection.primaryType
        g == generateId(counters, "", primaryType.key, NullIndex)
    IN IF primaryType.key # ""
       THEN /\ counters' = g.counters
            /\ dElements' = [dElements EXCEPT ![di + 1] =
                   [elem EXCEPT !.replaceable = TRUE,
                                !.variable = [ set |-> TRUE, isVariable |-> FALSE,
                                               variableKey |-> "", typeKey |-> "",
                                               primaryType |-> primaryType.key,
                                               allTags |-> detection.allTypes,
                                               id |-> g.id ]]]
            /\ variables' = Append(variables,
                   [ elementId    |-> di + 1,
                     variableKey  |-> g.id,
                     variableType |-> primaryType.key,
                     confidence   |-> detection.maxConfidence,
                     currentValue |-> OrSeq(elem.content, elem.name) ])
            /\ variableMap' = MapPut(variableMap, g.id, di + 1)
            /\ debugCount' = [debugCount EXCEPT !.text = @ + textInc,
                                                 !.image = @ + imageInc,
                                                 !.detected = @ + 1]
       ELSE /\ debugCount' = [debugCount EXCEPT !.text = @ + textInc,
                                                 !.image = @ + imageInc,
                                                 !.failed = @ + textInc + imageInc]
            /\ UNCHANGED <<counters, dElements, variables, variableMap>>

\* Iteration for a text element with content (a string: code units are not
\* negative): detectText.
ProcessText ==
    /\ AtElem
    /\ LET elem == dElements[di + 1] IN
          /\ ~IsPreTagged(elem)
          /\ elem.type = "text" /\ Len(elem.content) > 0
          /\ \A k \in 1..Len(elem.content) : elem.content[k] >= 0
          /\ \E detection \in detectText(elem.content) : Emit(detection, 1, 0)
    /\ di' = di + 1
    /\ UNCHANGED <<dPc>> /\ Others("VariableDetectorV2")

\* Iteration for an image element: detectImage on its size.
ProcessImage ==
    /\ AtElem
    /\ LET elem == dElements[di + 1] IN
          /\ ~IsPreTagged(elem)
          /\ ~(elem.type = "text" /\ Len(elem.content) > 0)
          /\ elem.type \in {"image_embedded", "image_linked"}
          /\ \E detection \in detectImage(elem.width, elem.height) : Emit(detection, 0, 1)
    /\ di' = di + 1
    /\ UNCHANGED <<dPc>> /\ Others("VariableDetectorV2")

\* Iteration for a path or compound path: detectShape on size and name.
ProcessShape ==
    /\ AtElem
    /\ LET elem == dElements[di + 1] IN
          /\ ~IsPreTagged(elem)
          /\ elem.type \in {"path", "compound_path"}
          /\ \E detection \in detectShape(elem.width, elem.height, elem.name) :
                Emit(detection, 0, 0)
    /\ di' = di + 1
    /\ UNCHANGED <<dPc>> /\ Others("VariableDetectorV2")

\* Iteration for any other element: no detector applies, nothing is pushed.
\* A null element (type "null" here) is skipped by `if (!elem) continue` to
\* the same effect.
ProcessOther ==
    /\ AtElem
    /\ LET elem == dElements[di + 1] IN
          /\ ~IsPreTagged(elem)
          /\ ~(elem.type = "text" /\ Len(elem.content) > 0)
          /\ elem.type \notin {"image_embedded", "image_linked", "path", "compound_path"}
    /\ di' = di + 1
    /\ UNCHANGED <<dElements, dPc, counters, variables, variableMap, debugCount>> /\ Others("VariableDetectorV2")

\* A detection pass over a list that starts with an image of any of the
\* sizes around the thresholds of the image rules (50, 80, 300 and 500 for
\* the width; 0.8, 0.95, 1.05 and 1.2 for the ratio), followed by at most
\* one element of another kind.
ImageInit ==
    /\ \E w \in { 0, 49, 50, 79, 80, 96, 100, 104, 120, 300, 301, 500, 501 },
          h \in { 0, 50, 76, 80, 95, 100, 105, 120, 286, 300, 315, 500 } :
       \E rest \in SeqsUpTo({ e \in DetElemKinds : e.type # "text" \/ e.content = Sample.hello }, 1) :
           dElements = << Elem("image_embedded", <<>>, <<>>, w, h, NoVariable) >> \o rest
    /\ dPc = "loop"
    /\ di = 0
    /\ counters = ResetCounters
    /\ variables = <<>>
    /\ variableMap = {}
    /\ debugCount = [text |-> 0, image |-> 0, detected |-> 0, failed |-> 0]
    /\ Idle("VariableDetectorV2")

\* The elements of a pass over a list with malformed entries: a null, an
\* image without a size (its width and height read as 0), a text whose
\* content is a number and not a string (written <<-1>>), among well-formed
\* elements of every kind.
MalformedInit ==
    /\ dElements \in SeqsUpTo(
           { Elem("null", <<>>, <<>>, 0, 0, NoVariable),
             Elem("image_embedded", <<>>, <<>>, 0, 0, NoVariable),
             Elem("text", <<-1>>, <<>>, 60, 20, NoVariable),
             Elem("text", Sample.hello, <<>>, 60, 20, NoVariable),
             Elem("text", Sample.hello, <<>>, 60, 20, PreTagged(TRUE, "", "name")),
             Elem("image_embedded", <<>>, <<>>, 100, 100, NoVariable),
             Elem("path", <<>>, <<>>, 50, 50, NoVariable) }, MaxDetElems)
    /\ dPc = "loop"
    /\ di = 0
    /\ counters = ResetCounters
    /\ variables = <<>>
    /\ variableMap = {}
    /\ debugCount = [text |-> 0, image |-> 0, detected |-> 0, failed |-> 0]
    /\ Idle("VariableDetectorV2")

\* the iteration lets the error of content.replace escape: the loop is left
ProcessRaisesAborting ==
    /\ AtElem
    /\ LET elem == dElements[di + 1] IN
          /\ ~IsPreTagged(elem)
          /\ elem.type = "text" /\ Len(elem.content) > 0
          /\ \E k \in 1..Len(elem.content) : elem.content[k] < 0
    /\ debugCount' = [debugCount EXCEPT !.text = @ + 1]
    /\ dPc' = "done"
    /\ UNCHANGED <<dElements, di, counters, variables, variableMap>> /\ Others("VariableDetectorV2")

\* Iteration for a text element whose content is not a string: the text
\* counter is bumped, content.replace raises a TypeError in detectText, the
\* catch of the loop body swallows it and the loop goes on.
ProcessRaises ==
    /\ AtElem
    /\ LET elem == dElements[di + 1] IN
          /\ ~IsPreTagged(elem)
          /\ elem.type = "text" /\ Len(elem.content) > 0
          /\ \E k \in 1..Len(elem.content) : elem.content[k] < 0
    /\ debugCount' = [debugCount EXCEPT !.text = @ + 1]
    /\ di' = di + 1
    /\ UNCHANGED <<dElements, dPc, counters, variables, variableMap>> /\ Others("VariableDetectorV2")

\* The loop is over: processElements returns variables and variableMap.
ProcessReturn ==
    /\ dPc = "loop"
    /\ di >= Len(dElements)
    /\ dPc' = "done"
    /\ UNCHANGED <<dElements, di, counters, variables, variableMap, debugCount>> /\ Others("VariableDetectorV2")

DetNext ==
    \/ ProcessPreTagged
    \/ ProcessText
    \/ ProcessImage
    \/ ProcessShape
    \/ ProcessOther
    \/ ProcessReturn

\* the detection pass has returned
DetDone == dPc = "done"

\* The field type under which the namer counted record k: the element's
\* variableType.key (or "unknown") for a pre-tagged element without a key,
\* the detected type otherwise; "" when the key did not come from the namer.
NamerTypeOf(k) ==
    LET e == dElements[variables[k].elementId] IN
    IF IsPreTagged(e)
    THEN IF e.variable.variableKey # "" THEN "" ELSE OrStr(e.variable.typeKey, "unknown")
    ELSE variables[k].variableType

\* C2: within one detection pass, over pre-tagged and heuristically tagged
\* elements alike, no two records of the returned variables list have the
\* same variableKey, and every standalone key is "{type-key}_{n}" with n the
\* number of keys of that type allocated before it (counting from 0).
C2_KeysUnique ==
    DetDone =>
        /\ \A j, k \in 1..Len(variables) :
              j # k => variables[j].variableKey # variables[k].variableKey
        /\ \A k \in 1..Len(variables) :
              NamerTypeOf(k) # "" =>
                  variables[k].variableKey =
                      NamerTypeOf(k) \o "_" \o
                      ToString(Cardinality({ j \in 1..(k - 1) : NamerTypeOf(j) = NamerTypeOf(k) }))

\* the element carries an explicit override: a recognized naming prefix on
\* its name, or a pre-assigned variable
HasOverride(e) == PrefixParse(e.name) # NoPrefix \/ IsPreTagged(e)

\* the type the override names
OverrideType(e) ==
    IF IsPreTagged(e) THEN OrStr(e.variable.typeKey, "text") ELSE PrefixParse(e.name).type

\* C10: the variable record emitted for an element with an explicit
\* override takes its type from the override, and no heuristic detector
\* classified that element (elem.variable.primaryType was never written).
C10_OverrideShortCircuits ==
    \A k \in 1..Len(variables) :
        LET e == dElements[variables[k].elementId] IN
        HasOverride(e) =>
            /\ variables[k].variableType = OverrideType(e)
            /\ e.variable.primaryType = ""

\* C11: a path or compound_path element that has no decorative name hint
\* and no extreme aspect ratio or size (detectShape falls through every
\* rule) receives no variable tag and has no record in the variables list.
C11_PlainShapeUntagged ==
    \A i \in 1..di :
        LET e == dElements[i] IN
        ( /\ e.type \in {"path", "compound_path"}
          /\ ~IsPreTagged(e)
          /\ ShapeKind(e.width, e.height, e.name).shapeType = "shape" ) =>
            /\ e.variable.primaryType = ""
            /\ \A k \in 1..Len(variables) : variables[k].elementId # i

\* the tags by non-increasing confidence, equal confidences in push order
\* (the order of the rules)
ByConfidenceThenRule(tags) ==
    LET Rank(k) == 1 + Cardinality({ j \in 1..Len(tags) :
                        \/ tags[j].confidence > tags[k].confidence
                        \/ tags[j].confidence = tags[k].confidence /\ j < k })
    IN [ r \in 1..Len(tags) |-> tags[CHOOSE k \in 1..Len(tags) : Rank(k) = r] ]

\* C12: for a text that detectText classified, allTags lists every matched
\* tag by non-increasing confidence with equal confidences in rule order,
\* and primaryType is the first of them.
C12_TagsByConfidenceThenRule ==
    \A i \in 1..di :
        LET e == dElements[i]
            expected == ByConfidenceThenRule(TextTags(Trim(e.content)))
        IN ( e.type = "text" /\ Len(e.content) > 0 /\ e.variable.primaryType # "" ) =>
              /\ e.variable.allTags = [k \in 1..Len(expected) |-> expected[k].type]
              /\ e.variable.primaryType = expected[1].varType.key

\* C22: a processed text with non-empty content that matches none of the
\* specific rules carries exactly one tag, `text`, with confidence 0.5 for a
\* trimmed length of at most 50 and 0.4 beyond; a text that matches a
\* specific rule does not carry `text`.
C22_FallbackText ==
    \A i \in 1..di :
        LET e == dElements[i]
            others == SelectSeq(TextTags(Trim(e.content)), LAMBDA t : t.type # "text")
        IN ( e.type = "text" /\ Len(e.content) > 0 /\ ~IsPreTagged(e) ) =>
              IF Len(others) = 0
              THEN /\ e.variable.allTags = <<"text">>
                   /\ \E v \in 1..Len(variables) :
                         /\ variables[v].elementId = i
                         /\ variables[v].confidence =
                               IF Len(Trim(e.content)) <= 50 THEN 50 ELSE 40
              ELSE \A k \in 1..Len(e.variable.allTags) : e.variable.allTags[k] # "text"

\* C23: a processed text of 2 to 4 CJK characters carries the tag `name`
\* (confidence 0.85) exactly when it contains no exclusion keyword; a text
\* that is itself an exclusion keyword carries no `name` tag.
C23_NameUnlessExcluded ==
    \A i \in 1..di :
        LET e == dElements[i]
            cleaned == SelectSeq(e.content, LAMBDA c : ~IsSpace(c))
            excluded == ContainsAny(cleaned, { <<22242, 38431>>,     \* U+56E2 U+961F
                                               <<27969, 31243>>,     \* U+6D41 U+7A0B
                                               <<22025, 23486>> })   \* U+5609 U+5BBE
            named == \E k \in 1..Len(e.variable.allTags) : e.variable.allTags[k] = "name"
        IN ( /\ e.type = "text" /\ ~IsPreTagged(e)
             /\ Len(cleaned) >= 2 /\ Len(cleaned) <= 4
             /\ \A k \in 1..Len(cleaned) : cleaned[k] >= 19968 /\ cleaned[k] <= 40869 )
           => (named = ~excluded)

\* ------------------------------------------------------------------------
\* PatternMatcher (src/lib/pattern_matcher.jsx)
\* ------------------------------------------------------------------------

\* Longest element list handed to matchAll.
MaxPmElems == 4

\* Longest match list handed to detectRepeatablePatterns on its own.
MaxRepeat == 3

\* COMPOSITE_PATTERNS in declaration order, which is the order for-in visits
\* its keys; minFields 0 stands for a definition without minFields.
COMPOSITE_PATTERNS ==
    << [ id |-> "guest", required |-> <<"avatar", "name">>,
         optional |-> <<"title", "desc", "company">>, repeatable |-> TRUE, minFields |-> 0 ],
       [ id |-> "member", required |-> <<"name", "title">>,
         optional |-> <<"desc", "phone", "email">>, repeatable |-> TRUE, minFields |-> 0 ],
       [ id |-> "testimonial", required |-> <<"text", "name">>,
         optional |-> <<"avatar", "title", "company">>, repeatable |-> TRUE, minFields |-> 0 ],
       [ id |-> "header", required |-> <<"event_title">>,
         optional |-> <<"date", "slogan", "logo">>, repeatable |-> FALSE, minFields |-> 0 ],
       [ id |-> "agenda", required |-> <<"time", "text">>,
         optional |-> <<"name", "title">>, repeatable |-> TRUE, minFields |-> 0 ],
       [ id |-> "schedule", required |-> <<"date">>,
         optional |-> <<"time", "address", "qrcode">>, repeatable |-> FALSE, minFields |-> 0 ],
       [ id |-> "price", required |-> <<"price">>,
         optional |-> <<"text", "desc", "percent">>, repeatable |-> TRUE, minFields |-> 0 ],
       [ id |-> "feature", required |-> <<"text">>,
         optional |-> <<"icon", "desc">>, repeatable |-> TRUE, minFields |-> 0 ],
       [ id |-> "product", required |-> <<"photo", "text">>,
         optional |-> <<"price", "desc">>, repeatable |-> TRUE, minFields |-> 0 ],
       [ id |-> "contact", required |-> <<"phone">>,
         optional |-> <<"email", "address", "wechat", "qq", "qrcode">>,
         repeatable |-> FALSE, minFields |-> 2 ],
       [ id |-> "social", required |-> <<"icon">>,
         optional |-> <<"text">>, repeatable |-> TRUE, minFields |-> 0 ],
       [ id |-> "stat", required |-> <<"number">>,
         optional |-> <<"text", "percent">>, repeatable |-> TRUE, minFields |-> 0 ],
       [ id |-> "step", required |-> <<"number", "text">>,
         optional |-> <<"icon", "desc">>, repeatable |-> TRUE, minFields |-> 0 ],
       [ id |-> "list", required |-> <<"text">>,
         optional |-> <<"icon">>, repeatable |-> TRUE, minFields |-> 0 ],
       [ id |-> "brand", required |-> <<"logo">>,
         optional |-> <<"text">>, repeatable |-> TRUE, minFields |-> 0 ] >>

\* parentId of a top-level element (null); element ids count from 1
NoParent == 0

\* repeatTotal of a match that was never given one
NoTotal == 0

\* The elements of seq s, as a set.
Range(s) == { s[i] : i \in 1..Len(s) }

\* findGroups: the containers of the list, in list order.
findGroups(elements) ==
    SelectSeq(elements, LAMBDA e : e.type = "group" \/ e.type = "clip_group")

\* getGroupChildren: the elements whose parentId is groupId, in list order.
getGroupChildren(elements, groupId) ==
    SelectSeq(elements, LAMBDA e : e.parentId = groupId)

\* extractTags: type -> the records of the children carrying that type, in
\* list order.  A child without a variable, or whose variable names no type,
\* is skipped; the type is variable.primaryType, else variable.variableType.key.
extractTags(children) ==
    LET typeOf(c) == OrStr(c.variable.primaryType, c.variable.typeKey)
        tagged == SelectSeq(children, LAMBDA c : c.variable.set /\ typeOf(c) # "")
    IN [ t \in { typeOf(c) : c \in Range(tagged) } |->
           LET cs == SelectSeq(tagged, LAMBDA c : typeOf(c) = t)
           IN [ i \in 1..Len(cs) |->
                  [ elementId |-> cs[i].id,
                    type      |-> t,
                    value     |-> OrSeq(cs[i].content, cs[i].name),
                    position  |-> cs[i].position,
                    size      |-> cs[i].size ] ] ]

\* A matcher that drops the minFields threshold: required keys only.
QualifiesWithoutMinFields(pattern, childTags) ==
    \A r \in 1..Len(pattern.required) :
        /\ pattern.required[r] \in DOMAIN childTags
        /\ Len(childTags[pattern.required[r]]) # 0

\* A matcher whose FEATURE_ITEM definition never qualifies.
QualifiesNotFeature(pattern, childTags) ==
    LET optionalCount ==
            Cardinality({ o \in 1..Len(pattern.optional) :
                            pattern.optional[o] \in DOMAIN childTags })
    IN /\ pattern.id # "feature"
       /\ \A r \in 1..Len(pattern.required) :
             /\ pattern.required[r] \in DOMAIN childTags
             /\ Len(childTags[pattern.required[r]]) # 0
       /\ ~(pattern.minFields # 0
              /\ Len(pattern.required) + optionalCount < pattern.minFields)

\* matchPattern, the two tests of one loop iteration: every required key has
\* at least one record, and the minFields threshold (when set) is met by the
\* required keys plus the optional keys present.
Qualifies(pattern, childTags) ==
    LET optionalCount ==
            Cardinality({ o \in 1..Len(pattern.optional) :
                            pattern.optional[o] \in DOMAIN childTags })
    IN /\ \A r \in 1..Len(pattern.required) :
             /\ pattern.required[r] \in DOMAIN childTags
             /\ Len(childTags[pattern.required[r]]) # 0
       /\ ~(pattern.minFields # 0
              /\ Len(pattern.required) + optionalCount < pattern.minFields)

\* A matcher that binds each key to the last record of its key.
BuildFieldsLastRecord(pattern, childTags) ==
    [ k \in Range(pattern.required)
            \cup (Range(pattern.optional) \cap DOMAIN childTags) |->
        childTags[k][Len(childTags[k])] ]

\* matchPattern, the fields of a successful match: every required key and
\* every optional key present, each bound to record 0 of its key.
BuildFields(pattern, childTags) ==
    [ k \in Range(pattern.required)
            \cup (Range(pattern.optional) \cap DOMAIN childTags) |->
        childTags[k][1] ]

\* matchPattern returns null
NoMatch == [ patternId |-> "" ]

\* matchPattern, the for-in loop from catalog entry k on: the first
\* definition that qualifies is returned; null when the loop runs out.
RECURSIVE MatchFrom(_, _, _)
MatchFrom(k, group, childTags) ==
    IF k > Len(COMPOSITE_PATTERNS) THEN NoMatch
    ELSE LET pattern == COMPOSITE_PATTERNS[k] IN
         IF ~Qualifies(pattern, childTags)
         THEN MatchFrom(k + 1, group, childTags)
         ELSE [ patternId   |-> pattern.id,
                groupId     |-> group.id,
                position    |-> group.position,
                size        |-> group.size,
                fields      |-> BuildFields(pattern, childTags),
                repeatable  |-> pattern.repeatable,
                repeatIndex |-> 0,
                repeatTotal |-> NoTotal ]

matchPattern(group, childTags, children) == MatchFrom(1, group, childTags)

\* The comparator of detectRepeatablePatterns over the matches listed in g
\* (indices into patterns): top to bottom, and left to right when the y
\* positions are within 20 of each other.
PositionCompare(patterns, g) ==
    [ p \in (1..Len(g)) \X (1..Len(g)) |->
        LET a == patterns[g[p[1]]].position
            b == patterns[g[p[2]]].position
            yDiff == a.y - b.y
        IN IF (IF yDiff < 0 THEN -yDiff ELSE yDiff) > 20 THEN yDiff ELSE a.x - b.x ]

\* detectRepeatablePatterns: the matches are grouped by patternId; a group
\* of more than one is sorted by position and its members are numbered in
\* the sorted order.  The list itself keeps its order.  The result depends
\* on what the sort does with the comparator, hence a set of outcomes.
detectRepeatablePatterns(patterns) ==
    LET n == Len(patterns)
        types == { patterns[i].patternId : i \in 1..n }
        members(t) == SelectSeq([ i \in 1..n |-> i ], LAMBDA i : patterns[i].patternId = t)
        orders(t) == IF Len(members(t)) > 1
                     THEN SortOutcomes(members(t), PositionCompare(patterns, members(t)))
                     ELSE { members(t) }
        sorted == { f \in [ types -> UNION { orders(t) : t \in types } ] :
                      \A t \in types : f[t] \in orders(t) }
    IN { [ i \in 1..n |->
             LET group == f[patterns[i].patternId] IN
             IF Len(group) > 1
             THEN [ patterns[i] EXCEPT
                      !.repeatIndex = (CHOOSE k \in 1..Len(group) : group[k] = i) - 1,
                      !.repeatTotal = Len(group) ]
             ELSE patterns[i] ] : f \in sorted }

\* matchAll, steps 2 to 4: every container is matched against the catalog,
\* the matches are collected in container order, then numbered.
matchAll(elements) ==
    LET groups == findGroups(elements)
        matched == [ i \in 1..Len(groups) |->
                       LET children == getGroupChildren(elements, groups[i].id)
                       IN matchPattern(groups[i], extractTags(children), children) ]
    IN detectRepeatablePatterns(SelectSeq(matched, LAMBDA m : m.patternId # NoMatch.patternId))

\* One element of the flattened list, as matchAll reads it.
PmElem(id, kind, parentId) ==
    [ id |-> id, type |-> kind.type, parentId |-> parentId,
      content |-> kind.content, name |-> <<>>, variable |-> kind.variable,
      position |-> kind.position, size |-> [ width |-> 60, height |-> 20 ] ]

\* The kinds of element a traversal pushes: two containers at different
\* positions, leaves tagged by the detection pass (variable.primaryType), a
\* leaf tagged by an earlier stage (variable.variableType.key) and a leaf
\* without a variable.
PmKinds ==
    LET leaf(type, content, variable) ==
            [ type |-> type, content |-> content, variable |-> variable,
              position |-> [ x |-> 0, y |-> 0 ] ]
        tagged(primaryType) ==
            [ NoVariable EXCEPT !.set = TRUE, !.primaryType = primaryType ]
    IN { [ type |-> "group", content |-> <<>>, variable |-> NoVariable,
           position |-> [ x |-> 100, y |-> 0 ] ],
         [ type |-> "clip_group", content |-> <<>>, variable |-> NoVariable,
           position |-> [ x |-> 50, y |-> 20 ] ],
         leaf("image_embedded", <<>>, tagged("avatar")),
         leaf("image_embedded", <<>>, tagged("photo")),
         leaf("text", Sample.zhangSan, tagged("name")),
         leaf("text", Sample.a, tagged("title")),
         leaf("text", Sample.phone, tagged("phone")),
         leaf("text", Sample.hello, tagged("text")),
         leaf("text", Sample.hello, PreTagged(TRUE, "", "email")),
         leaf("path", <<>>, NoVariable) }

\* The match lists handed to detectRepeatablePatterns: each entry is what
\* matchPattern returns for a container at one of the positions, holding
\* either a name and a title (TEAM_MEMBER) or a text (FEATURE_ITEM).
RepeatInputs ==
    LET kind(type, content, primaryType, x, y) ==
            [ type |-> type, content |-> content, position |-> [ x |-> x, y |-> y ],
              variable |-> IF primaryType = "" THEN NoVariable
                           ELSE [ NoVariable EXCEPT !.set = TRUE,
                                                    !.primaryType = primaryType ] ]
        member == << PmElem(1, kind("text", Sample.zhangSan, "name", 0, 0), 0),
                     PmElem(2, kind("text", Sample.a, "title", 0, 0), 0) >>
        feature == << PmElem(1, kind("text", Sample.hello, "text", 0, 0), 0) >>
        positions == { <<100, 0>>, <<50, 20>>, <<10, 25>>, <<50, 400>> }
        matchOf(id, p, children) ==
            matchPattern(PmElem(id, kind("group", <<>>, "", p[1], p[2]), NoParent),
                         extractTags(children), children)
    IN UNION { { [ i \in 1..n |-> matchOf(i, ps[i], cs[i]) ] :
                   ps \in [ 1..n -> positions ],
                   cs \in [ 1..n -> { member, feature } ] } : n \in 0..MaxRepeat }

\* The traversal of a document starts with an empty flat list.
PmInit ==
    /\ pmElements = <<>>
    /\ pmPc = "traverse"
    /\ pmPatterns = <<>>
    /\ pmVariables = <<>>
    /\ Idle("PatternMatcher")

\* detectRepeatablePatterns is about to run on a match list of its own.
RepeatInit ==
    /\ pmElements = <<>>
    /\ pmPc = "repeat"
    /\ pmPatterns \in RepeatInputs
    /\ pmVariables = <<>>
    /\ Idle("PatternMatcher")

\* The containers an element pushed next can be a child of: the element
\* pushed last when it is a container, and the containers around it (the
\* traversal is depth-first, so any other container is already closed).
RECURSIVE OpenContainers(_, _)
OpenContainers(elements, id) ==
    IF id = NoParent THEN {}
    ELSE OpenContainers(elements, elements[id].parentId)
         \cup IF elements[id].type \in { "group", "clip_group" } THEN { id } ELSE {}

\* traverseItems visits one more item: its element is pushed on the flat
\* list with the next id and the id of the container being traversed.
Traverse ==
    /\ pmPc = "traverse"
    /\ Len(pmElements) < MaxPmElems
    /\ \E kind \in PmKinds :
       \E parentId \in { NoParent } \cup
               OpenContainers(pmElements,
                              IF pmElements = <<>> THEN NoParent ELSE Len(pmElements)) :
           pmElements' = Append(pmElements, PmElem(Len(pmElements) + 1, kind, parentId))
    /\ UNCHANGED <<pmPc, pmPatterns, pmVariables>> /\ Others("PatternMatcher")

\* The traversal is over: results.patterns of PatternMatcher.matchAll(elements)
MatchAll ==
    /\ pmPc = "traverse"
    /\ pmPatterns' \in matchAll(pmElements)
    /\ pmPc' = "done"
    /\ UNCHANGED <<pmElements, pmVariables>> /\ Others("PatternMatcher")

PmNext ==
    \/ Traverse
    \/ MatchAll

\* PatternMatcher.detectRepeatablePatterns(patterns) on its own
DetectRepeatable ==
    /\ pmPc = "repeat"
    /\ pmPatterns' \in detectRepeatablePatterns(pmPatterns)
    /\ pmPc' = "numbered"
    /\ UNCHANGED <<pmElements, pmVariables>> /\ Others("PatternMatcher")

\* matchAll has returned
PmDone == pmPc = "done"

\* the primary tag of an element: the type extractTags files it under
PrimaryTag(e) ==
    IF e.variable.set THEN OrStr(e.variable.primaryType, e.variable.typeKey) ELSE ""

\* the direct children of container id in the flat list (list positions)
DirectChildren(id) == { i \in 1..Len(pmElements) : pmElements[i].parentId = id }

\* the primary tags found among the direct children of container id
ChildTagsOf(id) == { PrimaryTag(pmElements[i]) : i \in DirectChildren(id) } \ { "" }

\* the direct children of container id whose primary tag is k
ChildrenTagged(id, k) == { i \in DirectChildren(id) : PrimaryTag(pmElements[i]) = k }

\* the catalog definition with the given id
DefinitionOf(id) ==
    COMPOSITE_PATTERNS[CHOOSE k \in 1..Len(COMPOSITE_PATTERNS) : COMPOSITE_PATTERNS[k].id = id]

\* C3: for every match returned by matchAll, fields holds every required
\* key of the matched definition and every optional key that is the primary
\* tag of a direct child of the container, and no other key; each key is
\* bound to the first direct child, in element-list order, carrying it.
C3_FieldsBound ==
    PmDone =>
        \A m \in 1..Len(pmPatterns) :
            LET p == pmPatterns[m]
                d == DefinitionOf(p.patternId)
            IN /\ DOMAIN p.fields =
                      Range(d.required) \cup (Range(d.optional) \cap ChildTagsOf(p.groupId))
               /\ \A k \in DOMAIN p.fields :
                      /\ ChildrenTagged(p.groupId, k) # {}
                      /\ p.fields[k].elementId =
                             pmElements[CHOOSE i \in ChildrenTagged(p.groupId, k) :
                                 \A j \in ChildrenTagged(p.groupId, k) : i <= j].id

\* C3 happens: a match whose container has two direct children carrying the
\* same required key and a direct child carrying an optional key.
C3_Witness ==
    /\ PmDone
    /\ \E m \in 1..Len(pmPatterns) :
          LET p == pmPatterns[m]
              d == DefinitionOf(p.patternId)
          IN /\ \E k \in Range(d.required) : Cardinality(ChildrenTagged(p.groupId, k)) >= 2
             /\ \E k \in Range(d.optional) : k \in DOMAIN p.fields

\* the catalog entries (positions) that qualify for container id: every
\* required key is a primary tag of a direct child and, when minFields is
\* set, required.length + the number of optional keys present reaches it
QualifyingFor(id) ==
    { k \in 1..Len(COMPOSITE_PATTERNS) :
        LET d == COMPOSITE_PATTERNS[k] IN
        /\ Range(d.required) \subseteq ChildTagsOf(id)
        /\ d.minFields # 0 =>
              Len(d.required) + Cardinality(Range(d.optional) \cap ChildTagsOf(id))
                  >= d.minFields }

\* the matches (positions in results.patterns) of container id
MatchesOf(id) == { m \in 1..Len(pmPatterns) : pmPatterns[m].groupId = id }

\* the containers of the list (list positions)
Containers == { i \in 1..Len(pmElements) : pmElements[i].type \in { "group", "clip_group" } }

\* C4: every container yields at most one match; the pattern of a match is
\* the first qualifying definition in catalog order; a container for which
\* no definition qualifies yields no match.
C4_FirstDefinitionWins ==
    PmDone =>
        \A g \in Containers :
            LET id == pmElements[g].id
                q == QualifyingFor(id)
            IN /\ Cardinality(MatchesOf(id)) <= 1
               /\ q = {} => MatchesOf(id) = {}
               /\ \A m \in MatchesOf(id) :
                      /\ q # {}
                      /\ pmPatterns[m].patternId =
                             COMPOSITE_PATTERNS[CHOOSE k \in q : \A j \in q : k <= j].id

\* C4 happens: a container for which two definitions qualify and a third
\* one has its required keys present but misses its minFields, matched; and
\* a container matched by nothing.
C4_Witness ==
    /\ PmDone
    /\ \E g \in Containers :
          LET id == pmElements[g].id IN
          /\ Cardinality(QualifyingFor(id)) >= 2
          /\ MatchesOf(id) # {}
          /\ \E k \in 1..Len(COMPOSITE_PATTERNS) :
                /\ k \notin QualifyingFor(id)
                /\ Range(COMPOSITE_PATTERNS[k].required) \subseteq ChildTagsOf(id)
    /\ \E g \in Containers : MatchesOf(pmElements[g].id) = {}

\* detectRepeatablePatterns has returned
Numbered == pmPc = "numbered"

\* the matches (positions in the list) sharing the patternId t
Sharing(t) == { i \in 1..Len(pmPatterns) : pmPatterns[i].patternId = t }

\* C5: after detectRepeatablePatterns, the N >= 2 matches sharing a
\* patternId carry the repeatIndex values 0..N-1, each once, and repeatTotal
\* N; and of two of them whose y positions differ by at most 20, the one
\* with the smaller x has the smaller repeatIndex.
C5_RepeatIndexOrder ==
    Numbered =>
        \A t \in { pmPatterns[i].patternId : i \in 1..Len(pmPatterns) } :
            LET s == Sharing(t)
                n == Cardinality(s)
            IN n >= 2 =>
                /\ { pmPatterns[i].repeatIndex : i \in s } = 0..(n - 1)
                /\ \A i, j \in s : i # j => pmPatterns[i].repeatIndex # pmPatterns[j].repeatIndex
                /\ \A i \in s : pmPatterns[i].repeatTotal = n
                /\ \A i, j \in s :
                      LET a == pmPatterns[i].position
                          b == pmPatterns[j].position
                      IN (a.y - b.y <= 20 /\ b.y - a.y <= 20 /\ a.x < b.x) =>
                             pmPatterns[i].repeatIndex < pmPatterns[j].repeatIndex

\* C20: after detectRepeatablePatterns, of two matches sharing a patternId
\* whose y positions differ by more than 20, the one with the smaller y has
\* the smaller repeatIndex.
C20_FarApartOrderedByY ==
    Numbered =>
        \A i, j \in 1..Len(pmPatterns) :
            (/\ pmPatterns[i].patternId = pmPatterns[j].patternId
             /\ pmPatterns[j].position.y - pmPatterns[i].position.y > 20)
            => pmPatterns[i].repeatIndex < pmPatterns[j].repeatIndex

\* A namer that leaves the repeat index out of every prefix.
generatePatternVariableIdsNoIndex(patterns) ==
    LET keysOf(p) ==
            LET def == COMPOSITE_PATTERNS[CHOOSE k \in 1..Len(COMPOSITE_PATTERNS) :
                                             COMPOSITE_PATTERNS[k].id = p.patternId]
            IN SelectSeq(def.required \o def.optional, LAMBDA f : f \in DOMAIN p.fields)
        RECURSIVE From(_)
        From(i) ==
            IF i > Len(patterns) THEN <<>>
            ELSE LET p == patterns[i]
                     keys == keysOf(p)
                 IN [ k \in 1..Len(keys) |->
                        [ variableId   |-> p.patternId \o "." \o keys[k],
                          patternId    |-> p.patternId,
                          repeatIndex  |-> p.repeatIndex,
                          fieldName    |-> keys[k],
                          elementId    |-> p.fields[keys[k]].elementId,
                          currentValue |-> p.fields[keys[k]].value ] ]
                    \o From(i + 1)
    IN From(1)

\* generatePatternVariableIds: one variable per field of every match, in
\* list order and, within a match, in the order matchPattern filled the
\* fields (required keys, then the optional keys present).  The prefix is
\* patternId_repeatIndex when the match has a repeatTotal above 1.
generatePatternVariableIds(patterns) ==
    LET keysOf(p) ==
            LET def == COMPOSITE_PATTERNS[CHOOSE k \in 1..Len(COMPOSITE_PATTERNS) :
                                             COMPOSITE_PATTERNS[k].id = p.patternId]
            IN SelectSeq(def.required \o def.optional, LAMBDA f : f \in DOMAIN p.fields)
        RECURSIVE From(_)
        From(i) ==
            IF i > Len(patterns) THEN <<>>
            ELSE LET p == patterns[i]
                     prefix == IF p.repeatTotal > 1
                               THEN p.patternId \o "_" \o ToString(p.repeatIndex)
                               ELSE p.patternId
                     keys == keysOf(p)
                 IN [ k \in 1..Len(keys) |->
                        [ variableId   |-> prefix \o "." \o keys[k],
                          patternId    |-> p.patternId,
                          repeatIndex  |-> p.repeatIndex,
                          fieldName    |-> keys[k],
                          elementId    |-> p.fields[keys[k]].elementId,
                          currentValue |-> p.fields[keys[k]].value ] ]
                    \o From(i + 1)
    IN From(1)

\* main: the numbered matches get their variable ids
\* (structure.patternVariables); it is skipped when there is no match.
GeneratePatternVariableIds ==
    /\ pmPc = "numbered"
    /\ Len(pmPatterns) > 0
    /\ pmVariables' = generatePatternVariableIds(pmPatterns)
    /\ pmPc' = "named"
    /\ UNCHANGED <<pmElements, pmPatterns>> /\ Others("PatternMatcher")

\* C17: every field of every match gets one variable; its id is
\* "{patternId}_{repeatIndex}.{fieldName}" when N >= 2 matches share the
\* patternId and "{patternId}.{fieldName}" when the match is the only one of
\* its pattern; no two variables of the pass share a variableId.
C17_PatternVariableIdsUnique ==
    pmPc = "named" =>
        /\ \A i \in 1..Len(pmPatterns) : \A f \in DOMAIN pmPatterns[i].fields :
              LET p == pmPatterns[i]
                  id == IF Cardinality(Sharing(p.patternId)) >= 2
                        THEN p.patternId \o "_" \o ToString(p.repeatIndex) \o "." \o f
                        ELSE p.patternId \o "." \o f
              IN \E v \in 1..Len(pmVariables) :
                    /\ pmVariables[v].variableId = id
                    /\ pmVariables[v].elementId = p.fields[f].elementId
                    /\ pmVariables[v].fieldName = f
        /\ \A v, w \in 1..Len(pmVariables) :
              v # w => pmVariables[v].variableId # pmVariables[w].variableId

\* C17 case: a repeat group of two and a single match of another pattern
\* have been named in one pass.
C17_Witness ==
    /\ pmPc = "named"
    /\ \E i, j, k \in 1..Len(pmPatterns) :
          /\ i # j
          /\ pmPatterns[i].patternId = pmPatterns[j].patternId
          /\ Cardinality(Sharing(pmPatterns[k].patternId)) = 1
    /\ Len(pmVariables) >= 3

\* ------------------------------------------------------------------------
\* BatchReplacer.runFromConfig (src/lib/config.jsx) and the paths that
\* traverseItems records (src/AI_Template_Parser_v3.jsx)
\* ------------------------------------------------------------------------

\* A document is its layers, front to back; a layer and a group hold
\* pageItems; an item is [typename, contents, file, name, pageItems].  An
\* item is identified by its location: <<layer, index, index, ...>>, all
\* counted from 0 as in the scripting interface; <<layer>> is the layer.

\* Longest config.replacements handed to runFromConfig.
MaxReps == 2

\* Most layers, and most page items of a layer, of a traversed document.
MaxLayers == 2
MaxItems == 2

\* substring(0, 30) in findTextByContent
MatchPrefixLen == 30

\* no item: null
NoItem == <<>>

\* The layer, group or item at a location of the document.
RECURSIVE ItemAt(_, _)
ItemAt(doc, loc) ==
    IF Len(loc) = 1 THEN doc[loc[1] + 1]
    ELSE ItemAt(doc, SubSeq(loc, 1, Len(loc) - 1)).pageItems[loc[Len(loc)] + 1]

\* traverseItems: the path recorded for item i of a traversal whose parent
\* path is parentPath ("" for the items of a layer): String(i), or
\* parentPath + "/" + i.
ItemPath(parentPath, i) ==
    LET RECURSIVE Dec(_)
        Dec(n) == IF n < 10 THEN <<48 + n>> ELSE Append(Dec(n \div 10), 48 + (n % 10))
    IN IF parentPath # <<>> THEN parentPath \o <<47>> \o Dec(i) ELSE Dec(i)

\* traverseItems over the whole document: every item reached, with its
\* location and the element data recorded for it.  A group is recorded and
\* then traversed with its own path as parent path.
RECURSIVE TraverseItems(_, _, _)
TraverseItems(items, at, parentPath) ==
    UNION { LET item == items[i + 1]
                itemPath == ItemPath(parentPath, i)
            IN { [ loc |-> Append(at, i), path |-> itemPath,
                   typename |-> item.typename,
                   content |-> OrSeq(item.contents, item.name) ] }
               \cup IF item.typename = "GroupItem"
                    THEN TraverseItems(item.pageItems, Append(at, i), itemPath)
                    ELSE {} : i \in 0..(Len(items) - 1) }

\* The elements extracted from a document: every layer is traversed with an
\* empty parent path.
Extracted(doc) ==
    UNION { TraverseItems(doc[l + 1].pageItems, <<l>>, <<>>) : l \in 0..(Len(doc) - 1) }

\* pathStr.split("/") with parseInt(part, 10) of every part, for a path of
\* decimal indices.
ParsePath(pathStr) ==
    LET RECURSIVE Parts(_, _, _)
        Parts(k, n, acc) ==
            IF k > Len(pathStr) THEN Append(acc, n)
            ELSE IF pathStr[k] = 47 THEN Parts(k + 1, 0, Append(acc, n))
            ELSE Parts(k + 1, 10 * n + (pathStr[k] - 48), acc)
    IN Parts(1, 0, <<>>)

\* findByPath (runFromConfig) and BatchReplacer.findItemByPath: parts[0]
\* selects the layer, every further part an index into pageItems.
findByPath(doc, pathStr) ==
    LET parts == ParsePath(pathStr)
        RECURSIVE Walk(_, _)
        Walk(current, j) ==
            IF j > Len(parts) THEN current
            ELSE IF Len(ItemAt(doc, current).pageItems) > parts[j]
                 THEN Walk(Append(current, parts[j]), j + 1)
                 ELSE NoItem
    IN IF pathStr = <<>> \/ parts[1] >= Len(doc) THEN NoItem
       ELSE Walk(<<parts[1]>>, 2)

\* findTextByContent from item k of a container on: the first text frame,
\* depth first, whose content equals the target once line breaks are
\* removed and both are cut to 30 characters.
RECURSIVE findTextByContent(_, _, _, _)
findTextByContent(items, at, k, targetContent) ==
    LET clean(s) ==
            LET t == SelectSeq(s, LAMBDA c : c # 13 /\ c # 10)
            IN SubSeq(t, 1, IF Len(t) < MatchPrefixLen THEN Len(t) ELSE MatchPrefixLen)
    IN IF k >= Len(items) THEN NoItem
       ELSE LET item == items[k + 1] IN
            IF item.typename = "TextFrame" /\ clean(item.contents) = clean(targetContent)
            THEN Append(at, k)
            ELSE LET found == IF Len(item.pageItems) > 0
                              THEN findTextByContent(item.pageItems, Append(at, k), 0,
                                                     targetContent)
                              ELSE NoItem
                 IN IF found # NoItem THEN found
                    ELSE findTextByContent(items, at, k + 1, targetContent)

\* A resolution that walks the recorded path first.
ResolveTargetPathFirst(doc, rep) ==
    LET RECURSIVE Layers(_)
        Layers(l) ==
            IF l >= Len(doc) THEN NoItem
            ELSE LET item == findTextByContent(doc[l + 1].pageItems, <<l>>, 0,
                                               rep.currentValue)
                 IN IF item # NoItem THEN item ELSE Layers(l + 1)
        byPath == IF rep.elementPath # <<>> THEN findByPath(doc, rep.elementPath)
                  ELSE NoItem
    IN IF byPath # NoItem THEN byPath
       ELSE IF rep.currentValue # <<>> THEN Layers(0) ELSE NoItem

\* One iteration of runFromConfig up to the debug line "found item": the
\* content match over the layers in order when rep.currentValue is set, then
\* the path fallback when nothing matched and rep.elementPath is set (and,
\* under a found item that is no text frame, a content match inside it).
ResolveTarget(doc, rep) ==
    LET RECURSIVE Layers(_)
        Layers(l) ==
            IF l >= Len(doc) THEN NoItem
            ELSE LET item == findTextByContent(doc[l + 1].pageItems, <<l>>, 0,
                                               rep.currentValue)
                 IN IF item # NoItem THEN item ELSE Layers(l + 1)
        byContent == IF rep.currentValue # <<>> THEN Layers(0) ELSE NoItem
    IN IF byContent = NoItem /\ rep.elementPath # <<>>
       THEN LET item == findByPath(doc, rep.elementPath) IN
            IF item # NoItem /\ ItemAt(doc, item).typename # "TextFrame"
                             /\ rep.currentValue # <<>>
            THEN findTextByContent(ItemAt(doc, item).pageItems, item, 0, rep.currentValue)
            ELSE item
       ELSE byContent

\* The document after item.contents = newContent (replaceText) or
\* item.file = file (replaceImage) on the item at loc.
RECURSIVE Assign(_, _, _, _)
Assign(items, loc, field, value) ==
    [ i \in 1..Len(items) |->
        IF i # loc[1] + 1 THEN items[i]
        ELSE IF Len(loc) = 1
             THEN IF field = "contents" THEN [ items[i] EXCEPT !.contents = value ]
                                        ELSE [ items[i] EXCEPT !.file = value ]
             ELSE [ items[i] EXCEPT !.pageItems = Assign(@, Tail(loc), field, value) ] ]

\* A layer, a group or an item of a document.
Item(typename, contents, pageItems) ==
    [ typename |-> typename, contents |-> contents, file |-> <<>>, name |-> <<>>,
      pageItems |-> pageItems ]

\* The documents a batch replacement is run on ("A", "B": text contents;
\* the last one has an empty text frame and the text "A" twice).
SampleDocs ==
    LET text(c) == Item("TextFrame", c, <<>>)
        image == Item("PlacedItem", <<>>, <<>>)
        group(items) == Item("GroupItem", <<>>, items)
        layer(items) == Item("Layer", <<>>, items)
    IN { << layer(<< text(<<65>>), text(<<66>>) >>) >>,
         << layer(<< group(<< text(<<66>>), text(<<65>>) >>), image >>) >>,
         << layer(<< text(<<65>>) >>), layer(<< image, text(<<65, 13, 66>>) >>) >>,
         << layer(<< group(<< text(<<65>>) >>), text(<<65>>), text(<<>>), image >>) >> }

\* The documents whose recorded paths are resolved: at most MaxLayers
\* layers of at most MaxItems items each.
PathDocs ==
    LET kinds == { Item("TextFrame", <<65>>, <<>>),
                   Item("PlacedItem", <<>>, <<>>),
                   Item("GroupItem", <<>>, << Item("TextFrame", <<66>>, <<>>),
                                              Item("TextFrame", <<65>>, <<>>) >>) }
        layers == { Item("Layer", <<>>, items) : items \in SeqsUpTo(kinds, MaxItems) }
    IN SeqsUpTo(layers, MaxLayers) \ { <<>> }

\* The replacements the server puts in a row's config for a document: one
\* per mapped variable with a value, carrying the elementPath and the
\* currentValue recorded for the variable's element (both empty for a key
\* variables.json does not know) and the row's new value.  `element` is the
\* element the variable was recorded for; runFromConfig does not read it.
ReplacementsFor(doc) ==
    LET known == { e \in Extracted(doc) : e.typename # "GroupItem" }
        newValues == { <<66>>, <<67>> }
    IN { [ element |-> e.loc, elementPath |-> e.path, currentValue |-> e.content,
           newValue |-> v ] : e \in known, v \in newValues }
       \cup { [ element |-> NoItem, elementPath |-> <<>>, currentValue |-> <<>>,
                newValue |-> v ] : v \in newValues }

\* runFromConfig has opened the source file and read config.replacements;
\* the mapping names a variable once, so no two replacements are for the
\* same known variable.
RInit ==
    /\ rSource \in SampleDocs
    /\ rDoc = rSource
    /\ rReps \in SeqsUpTo(ReplacementsFor(rSource), MaxReps)
    /\ \A i, j \in 1..Len(rReps) :
          (i # j /\ rReps[i].element # NoItem) => rReps[i].element # rReps[j].element
    /\ Idle("BatchReplacer")
    /\ ri = 0
    /\ rItems = <<>>
    /\ rLog = <<>>
    /\ rPc = "loop"

\* A recorded path is about to be resolved on the document it was recorded on.
PathInit ==
    /\ rSource \in PathDocs
    /\ rDoc = rSource
    /\ rReps = <<>>
    /\ ri = 0
    /\ rItems = <<>>
    /\ rLog = <<>>
    /\ rPc = "path"
    /\ Idle("BatchReplacer")

\* One iteration of the replacement loop: the target is resolved on the open
\* document and, when it is a text frame or a placed image, replaced at
\* once (replaceText / replaceImage, which log what they did; replaceImage
\* does nothing when the new file does not exist).
ReplaceStep ==
    /\ rPc = "loop"
    /\ ri < Len(rReps)
    /\ LET rep == rReps[ri + 1]
           item == ResolveTarget(rDoc, rep)
           typename == IF item = NoItem THEN "" ELSE ItemAt(rDoc, item).typename
           entry(action) == [ action |-> action, elementId |-> ItemAt(rDoc, item).name,
                              newValue |-> rep.newValue ]
       IN /\ rItems' = Append(rItems, item)
          /\ \/ /\ typename = "TextFrame"
                /\ rDoc' = Assign(rDoc, item, "contents", rep.newValue)
                /\ rLog' = Append(rLog, entry("replaceText"))
             \/ /\ typename = "PlacedItem"
                /\ \E fileExists \in BOOLEAN :
                      IF fileExists
                      THEN /\ rDoc' = Assign(rDoc, item, "file", rep.newValue)
                           /\ rLog' = Append(rLog, entry("replaceImage"))
                      ELSE UNCHANGED <<rDoc, rLog>>
             \/ /\ typename \notin { "TextFrame", "PlacedItem" }
                /\ UNCHANGED <<rDoc, rLog>>
    /\ ri' = ri + 1
    /\ UNCHANGED <<rSource, rReps, rPc>> /\ Others("BatchReplacer")

\* The loop is over: the document is exported and closed without saving.
ReplaceReturn ==
    /\ rPc = "loop"
    /\ ri >= Len(rReps)
    /\ rPc' = "done"
    /\ UNCHANGED <<rSource, rDoc, rReps, ri, rItems, rLog>> /\ Others("BatchReplacer")

RNext ==
    \/ ReplaceStep
    \/ ReplaceReturn

\* The path recorded for an extracted element is resolved by findByPath.
ResolveRecorded ==
    /\ rPc = "path"
    /\ \E e \in Extracted(rDoc) :
          /\ rReps' = << [ element |-> e.loc, elementPath |-> e.path,
                           currentValue |-> <<>>, newValue |-> <<>> ] >>
          /\ rItems' = << findByPath(rDoc, e.path) >>
    /\ rPc' = "resolved"
    /\ UNCHANGED <<rSource, rDoc, ri, rLog>> /\ Others("BatchReplacer")

\* the replacement loop has ended
ReplaceDone == rPc = "done"

\* C6: for each replacement of the row (a mapped variable whose column has
\* a value) exactly one outcome is recorded: a success with the new value
\* when a target was resolved, a failure "not found" when neither the
\* content match nor the path fallback resolved one.
C6_OneOutcomePerField ==
    ReplaceDone =>
        /\ Len(rLog) = Len(rReps)
        /\ \A i \in 1..Len(rReps) :
              IF rItems[i] # NoItem
              THEN /\ rLog[i].action \in { "replaceText", "replaceImage" }
                   /\ rLog[i].newValue = rReps[i].newValue
              ELSE rLog[i].action = "failed: not found"

\* C8: resolution is read-only.  While a replacement of the row is still to
\* be resolved the document is the unmodified one, and every replacement
\* resolves to the target it has on the unmodified document (so a value
\* written for one variable is never matched as the currentValue of
\* another).
C8_ResolutionReadOnly ==
    /\ (rPc = "loop" /\ ri < Len(rReps)) => rDoc = rSource
    /\ rPc \in { "loop", "done" } =>
          \A i \in 1..Len(rItems) : rItems[i] = ResolveTarget(rSource, rReps[i])

\* C9: on an unchanged document, the path-fallback walk over the
\* elementPath recorded for an element arrives at that element.
C9_PathRoundTrip ==
    rPc = "resolved" => rItems[1] = rReps[1].element

\* the text frames of doc (locations) whose content equals target once line
\* breaks are removed and both are cut to 30 characters
ContentMatches(doc, target) ==
    LET clean(s) ==
            LET t == SelectSeq(s, LAMBDA c : c # 13 /\ c # 10)
            IN SubSeq(t, 1, IF Len(t) < MatchPrefixLen THEN Len(t) ELSE MatchPrefixLen)
    IN { e.loc : e \in { x \in Extracted(doc) :
                           /\ x.typename = "TextFrame"
                           /\ clean(ItemAt(doc, x.loc).contents) = clean(target) } }

\* location a comes before location b: an earlier layer, or the same layer
\* and earlier in depth-first document order
Before(a, b) ==
    \E k \in 1..Len(a) :
        /\ k <= Len(b)
        /\ \A j \in 1..(k - 1) : a[j] = b[j]
        /\ a[k] < b[k]

\* the first of a non-empty set of text-frame locations
FirstOf(locs) == CHOOSE a \in locs : \A b \in locs \ { a } : Before(a, b)

\* C21 as stated: whenever some text frame's content equals the recorded
\* currentValue of the replacement being resolved, the target is the first
\* such frame in layer order, then depth-first order, whatever the recorded
\* path says.
C21_ContentMatchFirst ==
    [][ReplaceStep =>
          LET rep == rReps[ri + 1]
              matches == ContentMatches(rDoc, rep.currentValue)
          IN matches # {} => rItems'[ri + 1] = FirstOf(matches)]_vars

\* C21: whenever the recorded currentValue of the replacement being resolved
\* is not empty and some text frame's content equals it, the target is the
\* first such frame in layer order, then depth-first order, whatever the
\* recorded path says; a target that is no such frame is resolved only when
\* no frame matches.
C21_NonEmptyContentMatchFirst ==
    [][ReplaceStep =>
          LET rep == rReps[ri + 1]
              matches == ContentMatches(rDoc, rep.currentValue)
          IN rep.currentValue # <<>> =>
                /\ matches # {} => rItems'[ri + 1] = FirstOf(matches)
                /\ rItems'[ri + 1] \notin matches => matches = {}]_vars

\* C21 case: the first replacement had a non-empty currentValue that two
\* text frames carry, one of them inside a group, and was resolved to the
\* first of them although a path was recorded.
C21_Witness ==
    /\ Len(rItems) >= 1
    /\ rReps[1].currentValue # <<>>
    /\ rReps[1].elementPath # <<>>
    /\ Cardinality(ContentMatches(rSource, rReps[1].currentValue)) >= 2
    /\ rItems[1] = FirstOf(ContentMatches(rSource, rReps[1].currentValue))
    /\ Len(rItems[1]) > 2

\* ------------------------------------------------------------------------
\* runBatchReplace (src/web/server/src/services/illustrator.ts)
\* ------------------------------------------------------------------------

\* Most data rows of a batch.
MaxRows == 3

\* mapping: variableKey -> CSV column, in the order Object.entries lists it;
\* an empty column name stands for a variable that is not mapped.
BatchMapping ==
    << [ varKey |-> "name_0", csvColumn |-> "Name" ],
       [ varKey |-> "title_0", csvColumn |-> "Title" ],
       [ varKey |-> "logo_0", csvColumn |-> "" ] >>

\* variableMap[varKey] as read from variables.json, with the default for a
\* key it does not hold.
BatchVariableInfo(varKey) ==
    IF varKey = "name_0" THEN [ elementPath |-> "0", currentValue |-> "Zhang San" ]
    ELSE [ elementPath |-> "", currentValue |-> "" ]

\* The replacements of one row: one per mapping entry whose column is named
\* and has a value in the row.
BuildReplacements(row) ==
    LET wanted == SelectSeq(BatchMapping,
                     LAMBDA m : m.csvColumn # "" /\ row[m.csvColumn] # Undefined)
    IN [ k \in 1..Len(wanted) |->
           [ varKey       |-> wanted[k].varKey,
             elementPath  |-> BatchVariableInfo(wanted[k].varKey).elementPath,
             currentValue |-> BatchVariableInfo(wanted[k].varKey).currentValue,
             newValue     |-> row[wanted[k].csvColumn] ] ]

\* `output_${String(i + 1).padStart(3, '0')}.ai` for row i (0-based)
OutputFile(i) ==
    "output_" \o (IF i + 1 < 10 THEN "00" ELSE IF i + 1 < 100 THEN "0" ELSE "")
              \o ToString(i + 1) \o ".ai"

BInit ==
    /\ bData \in SeqsUpTo([ Name : { Undefined, "Alice" }, Title : { Undefined, "CEO" } ],
                          MaxRows)
    /\ bi = 0
    /\ bSuccess = 0
    /\ bFailed = 0
    /\ bFiles = <<>>
    /\ bRuns = <<>>
    /\ bPc = "loop"
    /\ Idle("runBatchReplace")

\* A row is processed like ProcessRow, but a row that fails ends the batch.
ProcessRowAborting ==
    /\ bPc = "loop"
    /\ bi < Len(bData)
    /\ \E outcome \in { "generated", "missing", "error" } :
          /\ bRuns' = Append(bRuns, [ row |-> bi, outcome |-> outcome,
                                      replacements |-> BuildReplacements(bData[bi + 1]) ])
          /\ IF outcome = "generated"
             THEN /\ bFiles' = Append(bFiles, OutputFile(bi))
                  /\ bSuccess' = bSuccess + 1
                  /\ UNCHANGED <<bFailed, bPc>>
             ELSE /\ bFailed' = bFailed + 1
                  /\ bPc' = "done"
                  /\ UNCHANGED <<bFiles, bSuccess>>
    /\ bi' = bi + 1
    /\ UNCHANGED <<bData>> /\ Others("runBatchReplace")

\* One iteration of the row loop: the row's config is written and
\* Illustrator is run on it.  The run either leaves the output file
\* ("generated"), returns without one ("missing"), or execSync throws
\* ("error": a script error or the 120 s timeout), which the catch counts.
ProcessRow ==
    /\ bPc = "loop"
    /\ bi < Len(bData)
    /\ \E outcome \in { "generated", "missing", "error" } :
          /\ bRuns' = Append(bRuns, [ row |-> bi, outcome |-> outcome,
                                      replacements |-> BuildReplacements(bData[bi + 1]) ])
          /\ IF outcome = "generated"
             THEN /\ bFiles' = Append(bFiles, OutputFile(bi))
                  /\ bSuccess' = bSuccess + 1
                  /\ UNCHANGED bFailed
             ELSE /\ bFailed' = bFailed + 1
                  /\ UNCHANGED <<bFiles, bSuccess>>
    /\ bi' = bi + 1
    /\ UNCHANGED <<bData, bPc>> /\ Others("runBatchReplace")

\* return { success, failed, files }
BatchReturn ==
    /\ bPc = "loop"
    /\ bi >= Len(bData)
    /\ bPc' = "done"
    /\ UNCHANGED <<bData, bi, bSuccess, bFailed, bFiles, bRuns>> /\ Others("runBatchReplace")

BNext ==
    \/ ProcessRow
    \/ BatchReturn

\* the rows (0-based) whose run left its output file
GeneratedRows == { bRuns[k].row : k \in { j \in 1..Len(bRuns) : bRuns[j].outcome = "generated" } }

DupInit ==
    /\ pmPc = "traverse"
    /\ pmPatterns = <<>>
    /\ pmVariables = <<>>
    /\ Idle("PatternMatcher")
    /\ \E n1 \in 1..2, n2 \in 1..2 :
       \E k1 \in [ 1..n1 -> { k \in PmKinds : k.type \notin { "group", "clip_group" } } ],
          k2 \in [ 1..n2 -> { k \in PmKinds : k.type \notin { "group", "clip_group" } } ],
          g \in { k \in PmKinds : k.type = "group" },
          id2 \in { 1, n1 + 2 } :
           pmElements =
               << PmElem(1, g, NoParent) >>
               \o [ i \in 1..n1 |-> PmElem(1 + i, k1[i], 1) ]
               \o << PmElem(id2, g, NoParent) >>
               \o [ i \in 1..n2 |-> PmElem(n1 + 2 + i, k2[i], id2) ]

\* matchAll alone, on such a list.
SpecDup == DupInit /\ [][MatchAll]_vars

\* the list position of the container that holds the leaf at position i: the
\* nearest container before it (containers of these lists hold leaves only)
HolderOf(i) ==
    CHOOSE c \in 1..i : /\ pmElements[c].type = "group"
                        /\ \A d \in (c + 1)..i : pmElements[d].type # "group"

\* the list positions of the containers, in list order
ContainerPositions ==
    LET RECURSIVE From(_)
        From(i) == IF i > Len(pmElements) THEN <<>>
                   ELSE IF pmElements[i].type = "group" THEN <<i>> \o From(i + 1)
                   ELSE From(i + 1)
    IN From(1)

\* C25: when every container of the list has matched (the matches are then
\* in container order), each field of the match of a container is bound to
\* an element that container holds: no element held by another container
\* contributes, whether or not the ids of the list are unique.
C25_OnlyOwnChildren ==
    (PmDone /\ Len(pmPatterns) = Len(ContainerPositions)) =>
        \A m \in 1..Len(pmPatterns) :
            \A k \in DOMAIN pmPatterns[m].fields :
                \A i \in 1..Len(pmElements) :
                    (pmElements[i].type # "group"
                     /\ pmElements[i].id = pmPatterns[m].fields[k].elementId)
                        => HolderOf(i) = ContainerPositions[m]

\* ---------------------------------------------------------------------------
\* Two detection passes whose steps interleave
\* ---------------------------------------------------------------------------

\* Longest element list of each of the two passes.
MaxPassElems == 2

\* One iteration of the loop of processElements on element elem (id `id`)
\* with VariableNamer.counters = cnt: the records pushed on variables (none
\* or one) and the counters afterwards.  A text whose content is not a
\* string raises in detectText and pushes nothing.  An element that already carries a
\* variable gives a record built from it; any other element is handed to the
\* detector of its type and gives a record when a primary type was found.
StepOutcomes(elem, id, cnt) ==
    LET v == elem.variable
        pre == generateId(cnt, "", OrStr(v.typeKey, "unknown"), NullIndex)
        detections ==
            IF elem.type = "text" /\ Len(elem.content) > 0
            THEN IF \A k \in 1..Len(elem.content) : elem.content[k] >= 0
                 THEN detectText(elem.content)
                 ELSE {}
            ELSE IF elem.type \in {"image_embedded", "image_linked"}
            THEN detectImage(elem.width, elem.height)
            ELSE IF elem.type \in {"path", "compound_path"}
            THEN detectShape(elem.width, elem.height, elem.name)
            ELSE {}
        named(d) == generateId(cnt, "", d.primaryType.key, NullIndex)
    IN IF IsPreTagged(elem)
       THEN { [ pushed |-> << [ elementId    |-> id,
                                variableKey  |-> OrStr(v.variableKey, pre.id),
                                variableType |-> OrStr(v.typeKey, "text"),
                                allTags      |-> <<>> ] >>,
                counters |-> IF v.variableKey # "" THEN cnt ELSE pre.counters ] }
       ELSE IF detections = {}
       THEN { [ pushed |-> <<>>, counters |-> cnt ] }
       ELSE { IF d.primaryType.key # ""
              THEN [ pushed |-> << [ elementId    |-> id,
                                     variableKey  |-> named(d).id,
                                     variableType |-> d.primaryType.key,
                                     allTags      |-> d.allTypes ] >>,
                     counters |-> named(d).counters ]
              ELSE [ pushed |-> <<>>, counters |-> cnt ] : d \in detections }

\* Two calls of processElements are about to be made, each on an element
\* list of its own; VariableNamer.counters is {} as at load time.
TwoInit ==
    /\ Idle("two passes")
    /\ LET kinds == { Elem("text", Sample.hello, <<>>, 60, 20, NoVariable),
                      Elem("text", Sample.phone, <<>>, 120, 20, NoVariable),
                      Elem("image_embedded", <<>>, <<>>, 100, 100, NoVariable),
                      Elem("text", Sample.hello, <<>>, 60, 20, PreTagged(TRUE, "", "name")),
                      Elem("text", Sample.zhangSan, <<>>, 60, 20, PreTagged(FALSE, "name_0", "name")),
                      Elem("group", <<>>, <<>>, 300, 200, NoVariable) }
       IN tElements \in { <<a, b>> : a \in SeqsUpTo(kinds, MaxPassElems) \ { <<>> },
                                     b \in SeqsUpTo(kinds, MaxPassElems) \ { <<>> } }
    /\ tPc = << "start", "start" >>
    /\ ti = << 0, 0 >>
    /\ tVariables = << <<>>, <<>> >>
    /\ tCounters = ResetCounters
    /\ tLog = <<>>

\* processElements is entered without VariableNamer.reset()
EnterNoReset ==
    \E p \in 1..2 :
        /\ tPc[p] = "start"
        /\ tPc' = [tPc EXCEPT ![p] = "loop"]
        /\ tLog' = Append(tLog, p)
        /\ UNCHANGED <<tElements, ti, tVariables, tCounters>> /\ Others("two passes")

\* One pass enters processElements: MultiTagDetector.init() (the rules are
\* compiled once and never change) and VariableNamer.reset().
Enter ==
    \E p \in 1..2 :
        /\ tPc[p] = "start"
        /\ tPc' = [tPc EXCEPT ![p] = "loop"]
        /\ tCounters' = ResetCounters
        /\ tLog' = Append(tLog, p)
        /\ UNCHANGED <<tElements, ti, tVariables>> /\ Others("two passes")

\* One pass runs one iteration of its loop.
Step ==
    \E p \in 1..2 :
        /\ tPc[p] = "loop"
        /\ ti[p] < Len(tElements[p])
        /\ \E o \in StepOutcomes(tElements[p][ti[p] + 1], ti[p] + 1, tCounters) :
              /\ tVariables' = [tVariables EXCEPT ![p] = @ \o o.pushed]
              /\ tCounters' = o.counters
        /\ ti' = [ti EXCEPT ![p] = @ + 1]
        /\ tLog' = Append(tLog, p)
        /\ UNCHANGED <<tElements, tPc>> /\ Others("two passes")

\* One pass leaves its loop and returns its variables.
Return ==
    \E p \in 1..2 :
        /\ tPc[p] = "loop"
        /\ ti[p] >= Len(tElements[p])
        /\ tPc' = [tPc EXCEPT ![p] = "done"]
        /\ UNCHANGED <<tElements, ti, tVariables, tCounters, tLog>> /\ Others("two passes")

\* Two passes, their steps in any order.
SpecTwo == TwoInit /\ [][Enter \/ Step \/ Return]_vars

\* the variables lists a pass over `list` can return when it runs alone
RECURSIVE AloneFrom(_, _, _)
AloneFrom(list, i, cnt) ==
    IF i > Len(list) THEN { <<>> }
    ELSE UNION { { o.pushed \o rest : rest \in AloneFrom(list, i + 1, o.counters) } :
                     o \in StepOutcomes(list[i], i, cnt) }

\* no step of the other pass lies between two steps of pass p
Uninterrupted(p) ==
    \A a, b, c \in 1..Len(tLog) : (a < b /\ b < c /\ tLog[a] = p /\ tLog[c] = p) => tLog[b] = p

Malformed(e) ==
    \/ e.type = "null"
    \/ e.type \in {"image_embedded", "image_linked"} /\ e.width = 0 /\ e.height = 0
    \/ e.type = "text" /\ \E k \in 1..Len(e.content) : e.content[k] < 0

\* a well-formed element the pass has a record for when it is alone in the
\* list
Detectable(e) ==
    /\ ~Malformed(e)
    /\ \A o \in StepOutcomes([e EXCEPT !.variable = IF IsPreTagged(e) THEN @ ELSE NoVariable],
                             1, ResetCounters) : o.pushed # <<>>

\* C27: a pass over a list with malformed entries returns, and its variables
\* hold exactly one record for every detectable element of the list, before
\* and after the malformed ones, in list order.
C27_MalformedSkipped ==
    /\ (dPc = "done" => di = Len(dElements))
    /\ \A i \in 1..di :
          Detectable(dElements[i]) =>
              \E k \in 1..Len(variables) :
                  /\ variables[k].elementId = i
                  /\ \A j \in 1..Len(variables) : variables[j].elementId = i => j = k

\* C27 case: the pass has returned on a list whose second entry raised an
\* error, between two detectable elements that both have their record.
C27_Witness ==
    /\ DetDone
    /\ Len(dElements) = 3
    /\ dElements[2].type = "text" /\ dElements[2].content = <<-1>>
    /\ Detectable(dElements[1]) /\ Detectable(dElements[3])
    /\ Len(variables) = 2
    /\ debugCount.text >= 1

\* the position in the catalog of the definition with the given id
CatalogIndex(id) == CHOOSE k \in 1..Len(COMPOSITE_PATTERNS) : COMPOSITE_PATTERNS[k].id = id

\* C28: no match returned by matchAll is a LIST_ITEM or a PRODUCT_CARD; a
\* container whose child tags hold the required keys of one of the two has
\* a match, and it is of FEATURE_ITEM or of a definition before it in the
\* catalog, whose required keys are among the child tags too.
C28_ListAndProductShadowed ==
    PmDone =>
        /\ \A m \in 1..Len(pmPatterns) : pmPatterns[m].patternId \notin { "list", "product" }
        /\ \A g \in Containers :
              (\E id \in { "list", "product" } :
                   Range(DefinitionOf(id).required) \subseteq ChildTagsOf(g))
                 => \E m \in 1..Len(pmPatterns) :
                       /\ pmPatterns[m].groupId = g
                       /\ CatalogIndex(pmPatterns[m].patternId) <= CatalogIndex("feature")
                       /\ Range(DefinitionOf(pmPatterns[m].patternId).required)
                              \subseteq ChildTagsOf(g)

\* C28 case: matchAll has returned and a container with a photo and a text
\* among its children (the required keys of PRODUCT_CARD, and of LIST_ITEM)
\* has its match.
C28_Witness ==
    /\ PmDone
    /\ \E g \in Containers :
          /\ ChildTagsOf(g) = { "photo", "text" }
          /\ \E m \in 1..Len(pmPatterns) :
                pmPatterns[m].groupId = g /\ pmPatterns[m].patternId = "feature"

\* the size of an image satisfies the qrcode rule of detectImage
QrcodeRule(width, height) ==
    LET hh == IF height = 0 THEN 1 ELSE height
    IN 100 * width > 95 * hh /\ 100 * width < 105 * hh /\ width >= 80 /\ width <= 300

\* C29: whatever its size, an image classified by detectImage never has
\* qrcode as its primary type: when the qrcode rule holds for its size its
\* tags start with avatar and qrcode comes after, and neither the variable
\* written on the element (which extractTags files the element under) nor
\* its record carries the type qrcode.
C29_QrcodeNeverPrimary ==
    \A i \in 1..di :
        LET e == dElements[i] IN
        ( e.type \in {"image_embedded", "image_linked"} /\ ~IsPreTagged(e) ) =>
            /\ e.variable.primaryType # "qrcode"
            /\ \A k \in 1..Len(variables) :
                  variables[k].elementId = i => variables[k].variableType # "qrcode"
            /\ QrcodeRule(e.width, e.height) =>
                  /\ e.variable.primaryType = "avatar"
                  /\ e.variable.allTags[1] = "avatar"
                  /\ \E k \in 2..Len(e.variable.allTags) : e.variable.allTags[k] = "qrcode"

\* C29 case: the pass has classified a 96 x 100 image, for which the qrcode
\* rule holds, and a record was pushed for it.
C29_Witness ==
    /\ DetDone
    /\ dElements[1].width = 96 /\ dElements[1].height = 100
    /\ QrcodeRule(dElements[1].width, dElements[1].height)
    /\ \E k \in 1..Len(variables) : variables[k].elementId = 1

\* ---------------------------------------------------------------------------
\* LOOAnalyzer (src/lib/loo_analyzer.jsx)
\* ---------------------------------------------------------------------------

\* Most page items of the analysed document, and most targets of a run.
MaxLooItems == 2
MaxTargets == 3

\* run has selected its targets: each locates one page item of the document
\* or none (an element whose path no longer leads to an item); page items
\* are visible or hidden as the user left them.
LooInit ==
    /\ Idle("LOOAnalyzer")
    /\ \E n \in 1..MaxLooItems :
          /\ lItems \in [ 1..n -> BOOLEAN ]
          /\ lTargets \in SeqsUpTo(0..n, MaxTargets)
    /\ lResults = <<>>

\* analyzeElement on the next target.  Without an item the result is
\* not_found.  Otherwise the item is hidden, the document exported, and the
\* flag put back; a statement of the host may raise an error, and the catch
\* returns the status error from wherever that happened: on hiding the item
\* (nothing was changed), on redrawing or exporting (the item is hidden and
\* the restoring assignment is never reached), or after the flag was put
\* back (reading the baseline file).
AnalyzeElement ==
    /\ Len(lResults) < Len(lTargets)
    /\ LET item == lTargets[Len(lResults) + 1] IN
       IF item = 0
       THEN /\ lResults' = Append(lResults, "not_found")
            /\ UNCHANGED lItems
       ELSE \E raised \in { "never", "hide", "export", "baseline" } :
               /\ lResults' = Append(lResults, IF raised = "never" THEN "analyzed" ELSE "error")
               /\ lItems' = IF raised = "export" THEN [lItems EXCEPT ![item] = TRUE]
                            ELSE lItems
    /\ UNCHANGED lTargets /\ Others("LOOAnalyzer")

\* The loop of run over its targets.
SpecLoo == LooInit /\ [][AnalyzeElement]_vars

\* C30: a call of analyzeElement, whatever the status it returns, leaves the
\* hidden flag of the analysed item (and of every other item) as it was
\* before the call.
C30_HiddenRestored ==
    [][ \A i \in 1..Len(lItems) : lItems'[i] = lItems[i] ]_vars

\* ------------------------------------------------------------------------
\* The whole system: every component, each from its own initial states
\* ------------------------------------------------------------------------

\* The integrity checker alone.
SpecIntegrity == IcInit /\ [][CheckIdUniqueness]_vars

\* checkHierarchy alone.
SpecHierarchy == HierarchyInit /\ [][CheckHierarchy]_vars

\* checkBounds alone.
SpecBounds == BoundsInit /\ [][CheckBounds]_vars

\* Traversals of one tree that generate content-hash ids.
SpecGen == GenInit /\ [][GenerateId \/ GenerateSequential \/ Reset]_vars
SpecCoord == CoordInit /\ [][TransformBounds]_vars
SpecError == EhInit /\ [][SafeExecute]_vars

\* The layer loop of main with what follows it.  The script is the only
\* thread of the host and runs every statement it reaches, hence weak
\* fairness of each of its steps.
SpecMain ==
    /\ MainInit
    /\ [][LayerLoop \/ TraverseLayerItems \/ LaterPhases]_vars
    /\ WF_vars(LayerLoop) /\ WF_vars(TraverseLayerItems) /\ WF_vars(LaterPhases)

\* One detection pass alone.
SpecDetect == DetInit /\ [][DetNext]_vars

\* One detection pass over a list that starts with an image of any size.
SpecImage == ImageInit /\ [][DetNext]_vars

\* One detection pass over a list with malformed entries.
SpecMalformed == MalformedInit /\ [][DetNext \/ ProcessRaises]_vars

\* One traversal followed by matchAll.
SpecMatch == PmInit /\ [][PmNext]_vars

\* detectRepeatablePatterns and generatePatternVariableIds, on a list of
\* matches.
SpecRepeat == RepeatInit /\ [][DetectRepeatable \/ GeneratePatternVariableIds]_vars

\* One run of runFromConfig alone.
SpecReplace == RInit /\ [][RNext]_vars

\* The path fallback alone, on the path recorded for an element.
SpecPath == PathInit /\ [][ResolveRecorded]_vars

\* One batch of the server alone.
SpecBatch == BInit /\ [][BNext]_vars

Init ==
    \/ IcInit
    \/ LooInit
    \/ ImageInit
    \/ MalformedInit
    \/ TwoInit
    \/ DupInit
    \/ HierarchyInit
    \/ BoundsInit
    \/ GenInit
    \/ CoordInit
    \/ EhInit
    \/ MainInit
    \/ DetInit
    \/ PmInit
    \/ RepeatInit
    \/ RInit
    \/ PathInit
    \/ BInit

Next ==
    \/ AnalyzeElement
    \/ ProcessRaises
    \/ Enter
    \/ Step
    \/ Return
    \/ CheckIdUniqueness
    \/ CheckHierarchy
    \/ CheckBounds
    \/ GenerateId
    \/ GenerateSequential
    \/ Reset
    \/ TransformBounds
    \/ SafeExecute
    \/ LayerLoop
    \/ TraverseLayerItems
    \/ LaterPhases
    \/ DetNext
    \/ PmNext
    \/ DetectRepeatable
    \/ GeneratePatternVariableIds
    \/ RNext
    \/ ResolveRecorded
    \/ BNext

Spec == Init /\ [][Next]_vars

====
